---- MODULE Spec2Model ----
(***************************************************************************)
(* minidraw: the hierarchical coordinate system (Point, Pose).             *)
(*                                                                         *)
(* Objects live in a heap: a sequence of records, an object's identity is  *)
(* its index, a reference is an index and None is 0.  Coordinates are      *)
(* integers and angles are multiples of a quarter turn, so that cos and    *)
(* sin are exact; the rounding of Python floats is not modelled.  Pose     *)
(* keeps its angles in radians: the model writes k * pi / 2 as 90 * k.     *)
(*                                                                         *)
(* A behaviour constructs up to MaxNodes objects, detaches Points at any   *)
(* time and calls one transform; pre and last keep the heaps before the    *)
(* last call and the call itself, so that a property of an operation reads *)
(* as a relation between pre and the current heaps.                        *)
(*                                                                         *)
(* The primitives (Line, Circle, Rectangle, Polyline, Arc, Text, Group)    *)
(* live in a heap of their own, items; a Group holds the indices of its    *)
(* elements.  minidraw/style.py is not among the sources: Style and its    *)
(* merge are written from section 4.3 of the specification, with the ten   *)
(* attributes that backend/python.py reads.  primitives.py and render.py   *)
(* use a Point that is built from a pair, iterates and indexes as its      *)
(* absolute pair and has translated/rotated/scaled/mirrored; point.py has  *)
(* none of these, so the coordinates of a primitive are absolute pairs and *)
(* these methods are written from section 4.1 of the specification.        *)
(***************************************************************************)
EXTENDS Integers, Sequences, FiniteSets, TLC

\* ------------------------------------------------------------------------
\* Bounds and input sets
\* ------------------------------------------------------------------------
MaxNodes == 3
MaxItems == 3
MaxElements == 3

None == 0
NodeId == 1..MaxNodes

\* coordinates handed to the constructors
InitCoords == {<<1, 0>>, <<0, 2>>}
\* translation vectors
Deltas == {<<1, 0>>, <<-2, 3>>}
\* angles in degrees
Angles == {90, 180, 270}
\* scale factors <<sx, sy>>; sy is <<v>> when given and NoArg when omitted
NoArg == <<>>
Factors == {<<2, <<3>>>>, <<-1, NoArg>>, <<0, <<2>>>>}
\* absolute tuples used as pivots and axis points
PivotTuples == {<<0, 0>>, <<1, 2>>}
\* constructor arguments <<x, y, theta, sx, sy>> of a Pose; Pose() is the first
PoseInits == {<<0, 0, 0, 1, 1>>, <<2, 1, 90, 2, 3>>}
\* axis vectors handed to Pose.mirror
PoseAxes == {<<1, 0>>, <<0, 1>>, <<1, 1>>, <<0, 0>>}
\* distances handed to right_of, left_of, above and below
Distances == {5, -2}
\* the objects handed to Drawing.add: two primitives, a group, and two objects
\* that are no primitives
AddObjects ==
    {[cls |-> "Line", id |-> 1], [cls |-> "Circle", id |-> 2],
     [cls |-> "Group", id |-> 3], [cls |-> "tuple", id |-> 4],
     [cls |-> "Point", id |-> 5]}
\* the argument lists of add: no item, one item, two items
AddArgs ==
    {<<>>} \cup {<<o>> : o \in AddObjects}
           \cup {<<o1, o2>> : o1 \in AddObjects, o2 \in AddObjects}
\* <<start_angle, end_angle>> of an Arc: spans of 270, 180, -90 and 540 degrees
ArcAngles == {<<0, 270>>, <<0, 180>>, <<90, 0>>, <<0, 540>>}
\* the angle of the axis handed to mirror
MirrorAngles == {0, 90}
\* the values a style attribute is set to
StyleValues == {1, 2, 3}

\* ------------------------------------------------------------------------
\* PointLike: an absolute tuple, a Point reference, or an omitted argument
\* ------------------------------------------------------------------------
Tup(a, b) == [kind |-> "tuple", cx |-> a, cy |-> b, ref |-> None]
Ref(k) == [kind |-> "point", cx |-> 0, cy |-> 0, ref |-> k]
Omitted == [kind |-> "none", cx |-> 0, cy |-> 0, ref |-> None]

\* ------------------------------------------------------------------------
\* Exact trigonometry for multiples of 90 degrees
\* ------------------------------------------------------------------------
CosDeg(a) == CASE a % 360 = 0 -> 1
               [] a % 360 = 90 -> 0
               [] a % 360 = 180 -> -1
               [] a % 360 = 270 -> 0

SinDeg(a) == CASE a % 360 = 0 -> 0
               [] a % 360 = 90 -> 1
               [] a % 360 = 180 -> 0
               [] a % 360 = 270 -> -1

\* atan2(ny, nx) in degrees, for the axis directions of PoseAxes
Atan2Deg(ny, nx) == CASE ny = 0 /\ nx > 0 -> 0
                      [] ny > 0 /\ nx = 0 -> 90
                      [] ny > 0 /\ nx = ny -> 45

\* ------------------------------------------------------------------------
\* State
\* ------------------------------------------------------------------------
VARIABLES
    pt,        \* heap of Point objects: pt[i] = [x, y, parent]
    po,        \* heap of Pose objects: po[i] = [dx, dy, dtheta, sx, sy, parent]
    pre,       \* both heaps as they were when the last operation was called
    last,      \* the last operation called: name, receiver, arguments, outcome
    frozen,    \* frozen[p]: the ancestors Point p had when it was last detached
    moved,     \* TRUE once a transform has been called
    items,     \* heap of Primitive objects (Line, ..., Group), one record each
    elements   \* Drawing.elements: the objects added to the drawing, in order

vars == <<pt, po, pre, last, frozen, moved, items, elements>>

\* ------------------------------------------------------------------------
\* Point: pure parts
\* ------------------------------------------------------------------------
Point_init(px, py, parent) == [x |-> px, y |-> py, parent |-> parent]

Point_rel(h, p) == <<h[p].x, h[p].y>>

\* abs() that stops at the parent instead of climbing the whole chain
Point_abs_stops_at_parent(h, p) ==
    IF h[p].parent = None
    THEN <<h[p].x, h[p].y>>
    ELSE <<h[h[p].parent].x + h[p].x, h[h[p].parent].y + h[p].y>>

RECURSIVE Point_abs(_, _)
Point_abs(h, p) ==
    IF h[p].parent = None
    THEN <<h[p].x, h[p].y>>
    ELSE LET pa == Point_abs(h, h[p].parent)
         IN <<pa[1] + h[p].x, pa[2] + h[p].y>>

\* to_local that forgets to subtract the parent's absolute position
Point_to_local_absolute(h, p, r) ==
    IF r.kind = "point" THEN Point_abs(h, r.ref) ELSE <<r.cx, r.cy>>

\* to_local that adds the parent's absolute position instead of subtracting it
Point_to_local_adds_parent(h, p, r) ==
    LET rabs == IF r.kind = "point" THEN Point_abs(h, r.ref) ELSE <<r.cx, r.cy>>
    IN IF h[p].parent # None
       THEN LET pa == Point_abs(h, h[p].parent)
            IN <<rabs[1] + pa[1], rabs[2] + pa[2]>>
       ELSE rabs

Point_to_local(h, p, r) ==
    LET rabs == IF r.kind = "point" THEN Point_abs(h, r.ref) ELSE <<r.cx, r.cy>>
    IN IF h[p].parent # None
       THEN LET pa == Point_abs(h, h[p].parent)
            IN <<rabs[1] - pa[1], rabs[2] - pa[2]>>
       ELSE rabs

\* detach that clears the parent without storing the absolute coordinates
Point_detach_keeps_local(h, p) == [h EXCEPT ![p].parent = None]

\* detach that stores the absolute coordinates without clearing the parent
Point_detach_keeps_parent(h, p) ==
    LET a == Point_abs(h, p)
    IN [h EXCEPT ![p].x = a[1], ![p].y = a[2]]

Point_detach(h, p) ==
    LET a == Point_abs(h, p)
    IN [h EXCEPT ![p] = [x |-> a[1], y |-> a[2], parent |-> None]]

\* translate that moves along x only
Point_translate_x_only(h, p, dx, dy) == [h EXCEPT ![p].x = @ + dx]

Point_translate(h, p, dx, dy) ==
    [h EXCEPT ![p].x = @ + dx, ![p].y = @ + dy]

Point_rotate(h, p, angle_deg, center) ==
    LET c == IF center.kind # "none" THEN Point_to_local(h, p, center) ELSE <<0, 0>>
        cos_a == CosDeg(angle_deg)
        sin_a == SinDeg(angle_deg)
        dx == h[p].x - c[1]
        dy == h[p].y - c[2]
    IN [h EXCEPT ![p].x = c[1] + dx * cos_a - dy * sin_a,
                 ![p].y = c[2] + dx * sin_a + dy * cos_a]

\* scale that leaves y alone when sy is omitted
Point_scale_sy_default_one(h, p, sx, sy0, center) ==
    LET sy == IF sy0 = NoArg THEN 1 ELSE sy0[1]
        c == IF center.kind # "none" THEN Point_to_local(h, p, center) ELSE <<0, 0>>
    IN [h EXCEPT ![p].x = sx * (h[p].x - c[1]) + c[1],
                 ![p].y = sy * (h[p].y - c[2]) + c[2]]

Point_scale(h, p, sx, sy0, center) ==
    LET sy == IF sy0 = NoArg THEN sx ELSE sy0[1]
        c == IF center.kind # "none" THEN Point_to_local(h, p, center) ELSE <<0, 0>>
    IN [h EXCEPT ![p].x = sx * (h[p].x - c[1]) + c[1],
                 ![p].y = sy * (h[p].y - c[2]) + c[2]]

\* the axis vector of mirror, in the local frame of p
Point_mirror_axis(h, p, axis_p1, axis_p2) ==
    LET l1 == Point_to_local(h, p, axis_p1)
        l2 == Point_to_local(h, p, axis_p2)
    IN <<l2[1] - l1[1], l2[2] - l1[2]>>

\* mirror without its test for a degenerate axis
Point_mirror_degenerate_unchecked(dx, dy) == FALSE

\* the test `dx == dy == 0` that guards the ValueError of mirror
Point_mirror_degenerate(dx, dy) == dx = dy /\ dy = 0

\* twice the foot of the perpendicular is 2 * (l1 + ((v . d) / |d|^2) * d); the
\* model covers the axes for which that is an integer
Point_mirror_exact(h, p, axis_p1, axis_p2) ==
    \A l1 \in {Point_to_local(h, p, axis_p1)},
       d \in {Point_mirror_axis(h, p, axis_p1, axis_p2)} :
        LET length2 == d[1] * d[1] + d[2] * d[2]
            dot == (h[p].x - l1[1]) * d[1] + (h[p].y - l1[2]) * d[2]
        IN length2 # 0 => /\ (2 * dot * d[1]) % length2 = 0
                          /\ (2 * dot * d[2]) % length2 = 0

\* mirror that stops at the foot of the perpendicular (projects onto the axis)
Point_mirror_projects(h, p, axis_p1, axis_p2) ==
    LET l1 == Point_to_local(h, p, axis_p1)
        d == Point_mirror_axis(h, p, axis_p1, axis_p2)
        length2 == d[1] * d[1] + d[2] * d[2]
        dot == (h[p].x - l1[1]) * d[1] + (h[p].y - l1[2]) * d[2]
    IN [h EXCEPT ![p].x = l1[1] + (dot * d[1]) \div length2,
                 ![p].y = l1[2] + (dot * d[2]) \div length2]

Point_mirror(h, p, axis_p1, axis_p2) ==
    LET l1 == Point_to_local(h, p, axis_p1)
        d == Point_mirror_axis(h, p, axis_p1, axis_p2)
        length2 == d[1] * d[1] + d[2] * d[2]
        dot == (h[p].x - l1[1]) * d[1] + (h[p].y - l1[2]) * d[2]
        cx2 == 2 * l1[1] + (2 * dot * d[1]) \div length2
        cy2 == 2 * l1[2] + (2 * dot * d[2]) \div length2
    IN [h EXCEPT ![p].x = cx2 - h[p].x, ![p].y = cy2 - h[p].y]

Point_flip_lr(h, p) == [h EXCEPT ![p].x = -h[p].x]

Point_flip_ud(h, p) == [h EXCEPT ![p].y = -h[p].y]

\* ------------------------------------------------------------------------
\* Pose: pure parts
\* ------------------------------------------------------------------------
Pose_init(x, y, theta, sx, sy, parent) ==
    [dx |-> x, dy |-> y, dtheta |-> theta, sx |-> sx, sy |-> sy, parent |-> parent]

RECURSIVE Pose_world(_, _)
Pose_world(h, p) ==
    IF h[p].parent = None
    THEN <<h[p].dx, h[p].dy, h[p].dtheta>>
    ELSE LET pw == Pose_world(h, h[p].parent)
             lx == h[p].dx * h[h[p].parent].sx
             ly == h[p].dy * h[h[p].parent].sy
         IN <<pw[1] + lx * CosDeg(pw[3]) - ly * SinDeg(pw[3]),
              pw[2] + lx * SinDeg(pw[3]) + ly * CosDeg(pw[3]),
              pw[3] + h[p].dtheta>>

Pose_translate(h, p, dx, dy) ==
    [h EXCEPT ![p].dx = @ + dx, ![p].dy = @ + dy]

\* rotate that takes an omitted pivot for the local point (0, 0)
Pose_rotate_about_origin(h, p, dtheta, around) ==
    LET ax == around.cx
        ay == around.cy
        dx == h[p].dx - ax
        dy == h[p].dy - ay
        c == CosDeg(dtheta)
        s == SinDeg(dtheta)
    IN [h EXCEPT ![p].dx = (dx * c - dy * s) + ax,
                 ![p].dy = (dx * s + dy * c) + ay,
                 ![p].dtheta = @ + dtheta]

Pose_rotate(h, p, dtheta, around) ==
    IF around.kind = "none"
    THEN [h EXCEPT ![p].dtheta = @ + dtheta]
    ELSE LET ax == around.cx
             ay == around.cy
             dx == h[p].dx - ax
             dy == h[p].dy - ay
             c == CosDeg(dtheta)
             s == SinDeg(dtheta)
         IN [h EXCEPT ![p].dx = (dx * c - dy * s) + ax,
                      ![p].dy = (dx * s + dy * c) + ay,
                      ![p].dtheta = @ + dtheta]

Pose_scale(h, p, sx, sy0, around) ==
    LET sy == IF sy0 # NoArg THEN sy0[1] ELSE sx
        moved_dx == IF around.kind # "none"
                    THEN around.cx + (h[p].dx - around.cx) * sx ELSE h[p].dx
        moved_dy == IF around.kind # "none"
                    THEN around.cy + (h[p].dy - around.cy) * sy ELSE h[p].dy
    IN [h EXCEPT ![p].dx = moved_dx, ![p].dy = moved_dy,
                 ![p].sx = @ * sx, ![p].sy = @ * sy]

\* the test `L == 0.0` on L = hypot(nx, ny) that guards the ValueError of mirror
Pose_mirror_degenerate(nx, ny) == nx * nx + ny * ny = 0

\* dot * (nx / L) is ((x . n) / L^2) * nx; it is an integer for every axis of PoseAxes
Pose_mirror(h, p, axis, through) ==
    LET nx == axis[1]
        ny == axis[2]
        L2 == nx * nx + ny * ny
        px == IF through.kind # "none" THEN through.cx ELSE 0
        py == IF through.kind # "none" THEN through.cy ELSE 0
        x == h[p].dx - px
        y == h[p].dy - py
        dot == x * nx + y * ny
        perp_x == x - (dot * nx) \div L2
        perp_y == y - (dot * ny) \div L2
        x_ref == x - 2 * perp_x
        y_ref == y - 2 * perp_y
        angle_axis == Atan2Deg(ny, nx)
    IN [h EXCEPT ![p].dx = x_ref + px,
                 ![p].dy = y_ref + py,
                 ![p].dtheta = 2 * angle_axis - @,
                 ![p].sx = -@]

Pose_mirror_raises(axis) ==
    IF Pose_mirror_degenerate(axis[1], axis[2]) THEN "ValueError" ELSE "none"

\* ------------------------------------------------------------------------
\* Helpers of the model
\* ------------------------------------------------------------------------
\* the proper ancestors of p in an acyclic heap
RECURSIVE Ancestors(_, _)
Ancestors(h, p) ==
    IF h[p].parent = None THEN {} ELSE {h[p].parent} \cup Ancestors(h, h[p].parent)

Live == 1..Len(pt)
LivePose == 1..Len(po)

Call(op, p, a, b, c1, c2, err) ==
    [op |-> op, node |-> p, a |-> a, b |-> b, c1 |-> c1, c2 |-> c2, err |-> err,
     ret |-> p]

\* a call that changes the Point heap into h: the state before it is kept in pre
Snapshot == [pt |-> pt, po |-> po, items |-> items, elements |-> elements]

PointCall(c, h) ==
    /\ pre' = Snapshot
    /\ pt' = h
    /\ last' = c
    /\ UNCHANGED <<po, items, elements>>

PoseCall(c, h) ==
    /\ pre' = Snapshot
    /\ po' = h
    /\ last' = c
    /\ UNCHANGED <<pt, frozen, items, elements>>

\* a call on the primitives: the item heap becomes h, r is what the call returns
ItemStep(c, h, r) ==
    /\ pre' = Snapshot
    /\ items' = h
    /\ last' = [c EXCEPT !.ret = r]
    /\ UNCHANGED <<pt, po, frozen, elements>>

ItemCall(c, h, r) ==
    /\ ItemStep(c, h, r)
    /\ UNCHANGED moved

\* a call on the drawing: its list becomes l
DrawingCall(c, l) ==
    /\ pre' = Snapshot
    /\ elements' = l
    /\ last' = c
    /\ UNCHANGED <<pt, po, frozen, moved, items>>

PointLikes == {Tup(c[1], c[2]) : c \in PivotTuples} \cup {Ref(q) : q \in Live}
LocalPoints == {Tup(c[1], c[2]) : c \in PivotTuples}

\* ------------------------------------------------------------------------
\* Actions on Points
\* ------------------------------------------------------------------------
Init ==
    /\ pt = <<>>
    /\ po = <<>>
    /\ pre = [pt |-> <<>>, po |-> <<>>, items |-> <<>>, elements |-> <<>>]
    /\ items = <<>>
    /\ elements = <<>>
    /\ last = Call("init", None, 0, 0, Omitted, Omitted, "none")
    /\ frozen = [p \in NodeId |-> {}]
    /\ moved = FALSE

NewPoint ==
    /\ Len(pt) + Len(po) < MaxNodes
    /\ \E c \in InitCoords, parent \in {None} \cup Live :
        PointCall(Call("Point", Len(pt) + 1, c[1], c[2], Omitted, Omitted, "none"),
                  Append(pt, Point_init(c[1], c[2], parent)))
    /\ UNCHANGED <<frozen, moved>>

Detach ==
    /\ \E p \in Live :
        PointCall(Call("detach", p, 0, 0, Omitted, Omitted, "none"), Point_detach(pt, p))
    /\ UNCHANGED <<frozen, moved>>

\* detach, with the ancestors the node loses written down; the detaches come
\* before the transform whose effect on the detached nodes is observed
DetachTracked ==
    /\ ~moved
    /\ \E p \in Live :
        /\ PointCall(Call("detach", p, 0, 0, Omitted, Omitted, "none"),
                     Point_detach(pt, p))
        /\ frozen' = [frozen EXCEPT ![p] = Ancestors(pt, p)]
    /\ UNCHANGED moved

Translate ==
    /\ ~moved
    /\ \E p \in Live, d \in Deltas :
        PointCall(Call("translate", p, d[1], d[2], Omitted, Omitted, "none"),
                  Point_translate(pt, p, d[1], d[2]))
    /\ moved' = TRUE
    /\ UNCHANGED frozen

Rotate ==
    /\ ~moved
    /\ \E p \in Live, a \in Angles, c \in PointLikes \cup {Omitted} :
        PointCall(Call("rotate", p, a, 0, c, Omitted, "none"), Point_rotate(pt, p, a, c))
    /\ moved' = TRUE
    /\ UNCHANGED frozen

Scale ==
    /\ ~moved
    /\ \E p \in Live, f \in Factors, c \in PointLikes \cup {Omitted} :
        PointCall(Call("scale", p, f[1], f[2], c, Omitted, "none"),
                  Point_scale(pt, p, f[1], f[2], c))
    /\ moved' = TRUE
    /\ UNCHANGED frozen

\* what a call of mirror raises, if anything
Point_mirror_raises(h, p, axis_p1, axis_p2) ==
    LET d == Point_mirror_axis(h, p, axis_p1, axis_p2)
    IN IF Point_mirror_degenerate(d[1], d[2]) THEN "ValueError"
       ELSE IF d[1] * d[1] + d[2] * d[2] = 0 THEN "ZeroDivisionError"
       ELSE "none"

Mirror ==
    /\ ~moved
    /\ \E p \in Live, a1 \in PointLikes, a2 \in PointLikes :
        LET err == Point_mirror_raises(pt, p, a1, a2)
        IN /\ Point_mirror_exact(pt, p, a1, a2)
           /\ PointCall(Call("mirror", p, 0, 0, a1, a2, err),
                        IF err = "none" THEN Point_mirror(pt, p, a1, a2) ELSE pt)
    /\ moved' = TRUE
    /\ UNCHANGED frozen

Flip ==
    /\ ~moved
    /\ \E p \in Live :
        \/ PointCall(Call("flip_lr", p, 0, 0, Omitted, Omitted, "none"),
                     Point_flip_lr(pt, p))
        \/ PointCall(Call("flip_ud", p, 0, 0, Omitted, Omitted, "none"),
                     Point_flip_ud(pt, p))
    /\ moved' = TRUE
    /\ UNCHANGED frozen

\* to_local assigns to no attribute: the heap is as it was, the tuple it returns
\* is kept in last.ret
ToLocal ==
    /\ \E p \in Live, r \in PointLikes :
        PointCall([Call("to_local", p, 0, 0, r, Omitted, "none")
                       EXCEPT !.ret = Point_to_local(pt, p, r)],
                  pt)
    /\ UNCHANGED <<frozen, moved>>

\* the directional constructors: a new Point whose parent is the receiver
Point_right_of(h, p, dx) == Append(h, Point_init(dx, 0, p))

Point_left_of(h, p, dx) == Append(h, Point_init(-dx, 0, p))

\* above that counts y upward
Point_above_y_up(h, p, dy) == Append(h, Point_init(0, dy, p))

Point_above(h, p, dy) == Append(h, Point_init(0, -dy, p))

Point_below(h, p, dy) == Append(h, Point_init(0, dy, p))

PointBeside ==
    /\ Len(pt) + Len(po) < MaxNodes
    /\ \E p \in Live, d \in Distances :
        \/ PointCall(Call("right_of", p, d, 0, Omitted, Omitted, "none"),
                     Point_right_of(pt, p, d))
        \/ PointCall(Call("left_of", p, d, 0, Omitted, Omitted, "none"),
                     Point_left_of(pt, p, d))
        \/ PointCall(Call("above", p, d, 0, Omitted, Omitted, "none"),
                     Point_above(pt, p, d))
        \/ PointCall(Call("below", p, d, 0, Omitted, Omitted, "none"),
                     Point_below(pt, p, d))
    /\ UNCHANGED <<frozen, moved>>

\* ------------------------------------------------------------------------
\* Actions on Poses
\* ------------------------------------------------------------------------
NewPose ==
    /\ Len(pt) + Len(po) < MaxNodes
    /\ \E c \in PoseInits, parent \in {None} \cup LivePose :
        PoseCall(Call("Pose", Len(po) + 1, c[1], c[2], Omitted, Omitted, "none"),
                 Append(po, Pose_init(c[1], c[2], c[3], c[4], c[5], parent)))
    /\ UNCHANGED moved

PoseTranslate ==
    /\ ~moved
    /\ \E p \in LivePose, d \in Deltas :
        PoseCall(Call("Pose.translate", p, d[1], d[2], Omitted, Omitted, "none"),
                 Pose_translate(po, p, d[1], d[2]))
    /\ moved' = TRUE

PoseRotate ==
    /\ ~moved
    /\ \E p \in LivePose, a \in Angles, c \in LocalPoints \cup {Omitted} :
        PoseCall(Call("Pose.rotate", p, a, 0, c, Omitted, "none"),
                 Pose_rotate(po, p, a, c))
    /\ moved' = TRUE

PoseScale ==
    /\ ~moved
    /\ \E p \in LivePose, f \in Factors, c \in LocalPoints \cup {Omitted} :
        PoseCall(Call("Pose.scale", p, f[1], f[2], c, Omitted, "none"),
                 Pose_scale(po, p, f[1], f[2], c))
    /\ moved' = TRUE

PoseMirror ==
    /\ ~moved
    /\ \E p \in LivePose, axis \in PoseAxes, c \in LocalPoints \cup {Omitted} :
        LET err == Pose_mirror_raises(axis)
        IN PoseCall(Call("Pose.mirror", p, axis[1], axis[2], c, Omitted, err),
                    IF err = "none" THEN Pose_mirror(po, p, axis, c) ELSE po)
    /\ moved' = TRUE

\* the directional constructors of Pose: ref(), a new Pose() whose parent is the
\* receiver, followed by translate
Pose_ref(h, p) == Append(h, Pose_init(0, 0, 0, 1, 1, p))

Pose_right_of(h, p, distance) == Pose_translate(Pose_ref(h, p), Len(h) + 1, distance, 0)

Pose_left_of(h, p, distance) == Pose_translate(Pose_ref(h, p), Len(h) + 1, -distance, 0)

Pose_above(h, p, distance) == Pose_translate(Pose_ref(h, p), Len(h) + 1, 0, distance)

Pose_below(h, p, distance) == Pose_translate(Pose_ref(h, p), Len(h) + 1, 0, -distance)

PoseBeside ==
    /\ Len(pt) + Len(po) < MaxNodes
    /\ \E p \in LivePose, d \in Distances :
        \/ PoseCall(Call("Pose.right_of", p, d, 0, Omitted, Omitted, "none"),
                    Pose_right_of(po, p, d))
        \/ PoseCall(Call("Pose.left_of", p, d, 0, Omitted, Omitted, "none"),
                    Pose_left_of(po, p, d))
        \/ PoseCall(Call("Pose.above", p, d, 0, Omitted, Omitted, "none"),
                    Pose_above(po, p, d))
        \/ PoseCall(Call("Pose.below", p, d, 0, Omitted, Omitted, "none"),
                    Pose_below(po, p, d))
    /\ UNCHANGED moved

\* offset(dx, dy): a new Pose with the receiver as parent and scale (1, 1)
Pose_offset(h, p, dx, dy, dtheta) == Append(h, Pose_init(dx, dy, dtheta, 1, 1, p))

\* apply(point): the point turned by the world angle about the world position
Pose_apply(h, p, point) ==
    LET w == Pose_world(h, p)
    IN <<w[1] + point[1] * CosDeg(w[3]) - point[2] * SinDeg(w[3]),
         w[2] + point[1] * SinDeg(w[3]) + point[2] * CosDeg(w[3])>>

PoseOffset ==
    /\ Len(pt) + Len(po) < MaxNodes
    /\ \E p \in LivePose, d \in Deltas :
        PoseCall([Call("Pose.offset", p, d[1], d[2], Omitted, Omitted, "none")
                      EXCEPT !.ret = Len(po) + 1],
                 Pose_offset(po, p, d[1], d[2], 0))
    /\ UNCHANGED moved

PoseWorld ==
    /\ \E p \in LivePose :
        PoseCall([Call("Pose.world", p, 0, 0, Omitted, Omitted, "none")
                      EXCEPT !.ret = Pose_world(po, p)],
                 po)
    /\ UNCHANGED moved

PoseApply ==
    /\ \E p \in LivePose, d \in Deltas :
        PoseCall([Call("Pose.apply", p, d[1], d[2], Omitted, Omitted, "none")
                      EXCEPT !.ret = Pose_apply(po, p, d)],
                 po)
    /\ UNCHANGED moved

\* ------------------------------------------------------------------------
\* Style (from section 4.3 of the specification) and Primitive.apply_style
\* ------------------------------------------------------------------------
\* the attributes of a Style; an attribute that is not set is None, a set one
\* holds a positive number that stands for its value
StyleAttrs == {"stroke", "stroke_width", "fill", "opacity", "dash", "linecap",
               "linejoin", "font_size", "font_family", "text_anchor"}

\* Style(stroke=.., fill=..): whatever is not given is unset
Style(stroke, fill) ==
    [k \in StyleAttrs |-> CASE k = "stroke" -> stroke
                            [] k = "fill" -> fill
                            [] OTHER -> None]

\* own.merge(inherited): per attribute, the own value when set, else the inherited
Style_merge(own, inherited) ==
    [k \in StyleAttrs |-> IF own[k] # None THEN own[k] ELSE inherited[k]]

\* own.merged(inherited), the name render.py calls the same rule by
Style_merged(own, inherited) == Style_merge(own, inherited)

\* apply_style that lets the inherited style win
Primitive_apply_style_inherited_wins(h, i, inherited) ==
    IF inherited = NoArg THEN h[i].style ELSE Style_merge(inherited[1], h[i].style)

\* inherited is <<style>>, or NoArg for None
Primitive_apply_style(h, i, inherited) ==
    IF inherited = NoArg THEN h[i].style ELSE Style_merge(h[i].style, inherited[1])

\* ------------------------------------------------------------------------
\* Primitives: constructors
\* ------------------------------------------------------------------------
Line(start, end, style) ==
    [kind |-> "Line", style |-> style, start |-> start, end |-> end]

Circle(center, radius, style) ==
    [kind |-> "Circle", style |-> style, center_point |-> center, radius |-> radius]

Rectangle(pos, size, style) ==
    [kind |-> "Rectangle", style |-> style, pos |-> pos, size |-> size]

Polyline(points, style) ==
    [kind |-> "Polyline", style |-> style, points |-> points]

Arc(center, radius, start_angle, end_angle, style) ==
    [kind |-> "Arc", style |-> style, center_point |-> center, radius |-> radius,
     start_angle |-> start_angle, end_angle |-> end_angle]

Text(pos, style) ==
    [kind |-> "Text", style |-> style, pos |-> pos]

\* a Group holds references to its elements: their indices in the heap
Group(elems, style) ==
    [kind |-> "Group", style |-> style, elements |-> elems]

LiveItems == 1..Len(items)

\* the styles given to the lines and groups of a scene
SceneStyles == {Style(None, None), Style(1, None), Style(2, 3)}

\* the geometry of the primitives of a scene
Shapes ==
    {Line(<<-1, 2>>, <<3, 0>>, Style(None, None)),
     Circle(<<0, 0>>, 5, Style(None, None)),
     Rectangle(<<1, 1>>, <<-5, 2>>, Style(None, None)),
     Polyline(<<<<2, 7>>, <<-3, 1>>, <<0, 0>>>>, Style(None, None)),
     Polyline(<<>>, Style(None, None)),
     Arc(<<4, 4>>, 2, 0, 270, Style(None, None)),
     Text(<<6, -2>>, Style(None, None))}

\* styles with stroke and fill each unset or set
StyleInputs == {Style(s, f) : s \in {None} \cup StyleValues, f \in {None} \cup StyleValues}

\* one primitive that carries a style of its own
NewStyled ==
    /\ items = <<>>
    /\ \E st \in StyleInputs :
        ItemCall(Call("Text", Len(items) + 1, 0, 0, Omitted, Omitted, "none"),
                 Append(items, Text(<<0, 0>>, st)), Len(items) + 1)

\* apply_style(None), apply_style(b) and apply_style(b.merge(c))
ApplyStyle ==
    \E i \in LiveItems :
        \/ ItemCall(Call("apply_style", i, NoArg, NoArg, Omitted, Omitted, "none"),
                    items, Primitive_apply_style(items, i, NoArg))
        \/ \E b \in StyleInputs :
               ItemCall(Call("apply_style", i, <<b>>, NoArg, Omitted, Omitted, "none"),
                        items, Primitive_apply_style(items, i, <<b>>))
        \/ \E b \in StyleInputs, c \in StyleInputs :
               ItemCall(Call("apply_style", i, <<b>>, <<c>>, Omitted, Omitted, "none"),
                        items, Primitive_apply_style(items, i, <<Style_merge(b, c)>>))

\* ------------------------------------------------------------------------
\* SVGRenderEngine
\* ------------------------------------------------------------------------
margin == 10

\* the viewport of a scene without coordinates: min_x, min_y, max_x, max_y
DefaultViewport == <<-10, -10, 110, 110>>

Range(q) == {q[k] : k \in DOMAIN q}
SeqMin(q) == CHOOSE m \in Range(q) : \A v \in Range(q) : m <= v
SeqMax(q) == CHOOSE m \in Range(q) : \A v \in Range(q) : m >= v
Abs(v) == IF v < 0 THEN -v ELSE v

\* item.center of a Circle or an Arc: `center` is the method center() of the
\* class (the Point is in center_point), and a bound method can be neither
\* indexed nor unpacked
Item_center(it) == [err |-> "TypeError", val |-> <<>>]

\* large_arc_flag of _draw_arc
SVG_large_arc_flag(start_angle, end_angle) ==
    IF Abs(end_angle - start_angle) > 180 THEN 1 ELSE 0

\* what a pass over the scene gives: an error, or the elements written so far
Raised(e) == [err |-> e, out |-> <<>>]
Emitted(q) == [err |-> "none", out |-> q]

\* one element of the document: its tag, the item it is written for, the
\* resolved style, the <g> elements around it (outermost first), for a path the
\* two flags of its arc command, and the style attributes written into it
\* str(v): the text of a value, "None" for None
Str(v) == IF v = None THEN "None" ELSE ToString(v)

\* `v or default`: the value when it is set, else the default
Or(v, default) == IF v = None THEN default ELSE ToString(v)

\* the style attributes a _draw_* method writes into the element of each tag:
\* the names that are always there, and dash, linecap, linejoin where the
\* method has an `if` for them and they are set
SVG_attr_names(tag, style) ==
    CASE tag = "line" ->
             {"stroke", "stroke-width", "opacity"}
                 \cup (IF style.dash # None THEN {"stroke-dasharray"} ELSE {})
                 \cup (IF style.linecap # None THEN {"stroke-linecap"} ELSE {})
                 \cup (IF style.linejoin # None THEN {"stroke-linejoin"} ELSE {})
      [] tag \in {"circle", "rect", "path"} ->
             {"stroke", "stroke-width", "fill", "opacity"}
      [] tag = "polyline" ->
             {"stroke", "stroke-width", "fill", "opacity"}
                 \cup (IF style.dash # None THEN {"stroke-dasharray"} ELSE {})
      [] tag = "text" ->
             {"font-size", "font-family", "text-anchor", "fill", "opacity"}
      [] OTHER -> {}

SVG_attrs(tag, style) ==
    [k \in SVG_attr_names(tag, style) |->
        CASE k = "stroke" -> Or(style.stroke, "black")
          [] k = "stroke-width" -> Str(style.stroke_width)
          [] k = "opacity" -> Str(style.opacity)
          [] k = "fill" -> Or(style.fill, IF tag = "text" THEN "black" ELSE "none")
          [] k = "stroke-dasharray" -> Str(style.dash)
          [] k = "stroke-linecap" -> Str(style.linecap)
          [] k = "stroke-linejoin" -> Str(style.linejoin)
          [] k = "font-size" -> Or(style.font_size, "10")
          [] k = "font-family" -> Or(style.font_family, "sans-serif")
          [] k = "text-anchor" -> Or(style.text_anchor, "start")]

Element(tag, i, style, path, flags) ==
    [tag |-> tag, item |-> i, style |-> style, path |-> path, flags |-> flags,
     attrs |-> SVG_attrs(tag, style)]

SVG_draw_circle(h, i, style, path) ==
    LET c == Item_center(h[i])
    IN IF c.err # "none" THEN Raised(c.err)
       ELSE Emitted(<<Element("circle", i, style, path, <<>>)>>)

SVG_draw_arc(h, i, style, path) ==
    LET c == Item_center(h[i])
    IN IF c.err # "none" THEN Raised(c.err)
       ELSE Emitted(<<Element("path", i, style, path,
                              <<SVG_large_arc_flag(h[i].start_angle, h[i].end_angle),
                                1>>)>>)

\* the style _draw_group hands to each element of the group
SVG_group_inherited_own_only(group_style, inherited_style) == group_style

SVG_group_inherited(group_style, inherited_style) ==
    Style_merged(group_style, inherited_style)

RECURSIVE SVG_draw_item(_, _, _, _)
RECURSIVE SVG_draw_elements(_, _, _, _, _)

\* _draw_group: a <g>, then the elements of the group in order from the k-th
\* on; an exception ends the pass
SVG_draw_elements(h, elems, k, inherited_style, path) ==
    IF k > Len(elems) THEN Emitted(<<>>)
    ELSE LET first == SVG_draw_item(h, elems[k], inherited_style, path)
         IN IF first.err # "none" THEN first
            ELSE LET rest == SVG_draw_elements(h, elems, k + 1, inherited_style, path)
                 IN IF rest.err # "none" THEN rest
                    ELSE Emitted(first.out \o rest.out)

SVG_draw_group(h, i, inherited_style, path) ==
    LET inner == SVG_draw_elements(h, h[i].elements, 1,
                                   SVG_group_inherited(h[i].style, inherited_style),
                                   Append(path, i))
    IN IF inner.err # "none" THEN inner
       ELSE Emitted(<<Element("g", i, inherited_style, path, <<>>)>> \o inner.out)

\* _draw_item: the isinstance chain has no else, anything else writes nothing
SVG_draw_item(h, i, inherited_style, path) ==
    LET style == Style_merged(h[i].style, inherited_style)
    IN CASE h[i].kind = "Line" -> Emitted(<<Element("line", i, style, path, <<>>)>>)
         [] h[i].kind = "Circle" -> SVG_draw_circle(h, i, style, path)
         [] h[i].kind = "Rectangle" -> Emitted(<<Element("rect", i, style, path, <<>>)>>)
         [] h[i].kind = "Polyline" -> Emitted(<<Element("polyline", i, style, path, <<>>)>>)
         [] h[i].kind = "Arc" -> SVG_draw_arc(h, i, style, path)
         [] h[i].kind = "Text" -> Emitted(<<Element("text", i, style, path, <<>>)>>)
         [] h[i].kind = "Group" -> SVG_draw_group(h, i, style, path)
         [] OTHER -> Emitted(<<>>)

\* _compute_bounds: collect appends to the lists xs and ys
Collected(e, xs, ys) == [err |-> e, xs |-> xs, ys |-> ys]

RECURSIVE SVG_collect_points(_, _, _)
SVG_collect_points(points, k, acc) ==
    IF k > Len(points) THEN acc
    ELSE SVG_collect_points(points, k + 1,
                            Collected(acc.err, Append(acc.xs, points[k][1]),
                                      Append(acc.ys, points[k][2])))

RECURSIVE SVG_collect(_, _, _)
RECURSIVE SVG_collect_all(_, _, _, _)

SVG_collect_all(h, elems, k, acc) ==
    IF k > Len(elems) \/ acc.err # "none" THEN acc
    ELSE SVG_collect_all(h, elems, k + 1, SVG_collect(h, elems[k], acc))

SVG_collect(h, i, acc) ==
    LET it == h[i]
    IN CASE it.kind = "Line" ->
              Collected(acc.err, acc.xs \o <<it.start[1], it.end[1]>>,
                        acc.ys \o <<it.start[2], it.end[2]>>)
         [] it.kind \in {"Circle", "Arc"} ->
              LET c == Item_center(it)
              IN IF c.err # "none" THEN Collected(c.err, acc.xs, acc.ys)
                 ELSE Collected(acc.err,
                                acc.xs \o <<c.val[1] - it.radius, c.val[1] + it.radius>>,
                                acc.ys \o <<c.val[2] - it.radius, c.val[2] + it.radius>>)
         [] it.kind = "Rectangle" ->
              Collected(acc.err, acc.xs \o <<it.pos[1], it.pos[1] + it.size[1]>>,
                        acc.ys \o <<it.pos[2], it.pos[2] + it.size[2]>>)
         [] it.kind = "Polyline" -> SVG_collect_points(it.points, 1, acc)
         [] it.kind = "Text" ->
              Collected(acc.err, Append(acc.xs, it.pos[1]), Append(acc.ys, it.pos[2]))
         [] it.kind = "Group" -> SVG_collect_all(h, it.elements, 1, acc)
         [] OTHER -> acc

\* _compute_bounds that puts the margin around (0, 0) when nothing was collected
SVG_compute_bounds_margin_around_origin(h, elems) ==
    LET acc == SVG_collect_all(h, elems, 1, Collected("none", <<>>, <<>>))
        xs == IF acc.xs = <<>> THEN <<0>> ELSE acc.xs
        ys == IF acc.ys = <<>> THEN <<0>> ELSE acc.ys
    IN IF acc.err # "none" THEN [err |-> acc.err, val |-> NoArg]
       ELSE [err |-> "none",
             val |-> <<SeqMin(xs) - margin, SeqMin(ys) - margin,
                       SeqMax(xs) + margin, SeqMax(ys) + margin>>]

\* None is NoArg, the tuple of bounds is <<min_x, min_y, max_x, max_y>>
SVG_compute_bounds(h, elems) ==
    LET acc == SVG_collect_all(h, elems, 1, Collected("none", <<>>, <<>>))
    IN IF acc.err # "none" THEN [err |-> acc.err, val |-> NoArg]
       ELSE IF acc.xs = <<>> \/ acc.ys = <<>> THEN [err |-> "none", val |-> NoArg]
       ELSE [err |-> "none",
             val |-> <<SeqMin(acc.xs) - margin, SeqMin(acc.ys) - margin,
                       SeqMax(acc.xs) + margin, SeqMax(acc.ys) + margin>>]

\* what render gives: an exception and no document, or the attributes of the
\* <svg> element and the elements written into it
Document(e, v, out) ==
    [err |-> e, min_x |-> v[1], min_y |-> v[2],
     width |-> v[3] - v[1], height |-> v[4] - v[2], out |-> out]

SVG_render(h, drawables) ==
    LET bounds == SVG_compute_bounds(h, drawables)
    IN IF bounds.err # "none" THEN Document(bounds.err, <<0, 0, 0, 0>>, <<>>)
       ELSE LET v == IF bounds.val # NoArg THEN bounds.val ELSE DefaultViewport
                doc == SVG_draw_elements(h, drawables, 1, Style(None, None), <<>>)
            IN IF doc.err # "none" THEN Document(doc.err, <<0, 0, 0, 0>>, <<>>)
               ELSE Document("none", v, doc.out)

\* lists of up to two existing items, in the order of their creation
ItemLists ==
    {<<>>} \cup {<<i>> : i \in LiveItems}
           \cup {q \in {<<i, j>> : i \in LiveItems, j \in LiveItems} : q[1] < q[2]}

\* Line(..., style=st), the first object of a scene of nested groups
NewStyledLine ==
    /\ items = <<>>
    /\ \E st \in SceneStyles :
        ItemCall(Call("Line", Len(items) + 1, 0, 0, Omitted, Omitted, "none"),
                 Append(items, Line(<<0, 0>>, <<1, 1>>, st)), Len(items) + 1)

\* Group(elements=[...], style=st)
NewStyledGroup ==
    /\ Len(items) < MaxItems
    /\ \E elems \in ItemLists, st \in SceneStyles :
        ItemCall(Call("Group", Len(items) + 1, 0, 0, Omitted, Omitted, "none"),
                 Append(items, Group(elems, st)), Len(items) + 1)

\* a primitive with the geometry of one of Shapes and the style Style()
NewShape ==
    /\ Len(items) < MaxItems
    /\ \E sh \in Shapes :
        ItemCall(Call(sh.kind, Len(items) + 1, 0, 0, Omitted, Omitted, "none"),
                 Append(items, sh), Len(items) + 1)

\* Group(elements=[...])
NewGroup ==
    /\ Len(items) < MaxItems
    /\ \E elems \in ItemLists :
        ItemCall(Call("Group", Len(items) + 1, 0, 0, Omitted, Omitted, "none"),
                 Append(items, Group(elems, Style(None, None))), Len(items) + 1)

\* SVGRenderEngine().render(drawables), for the empty list and for one drawable
Render ==
    \E drawables \in {<<>>} \cup {<<i>> : i \in LiveItems} :
        LET doc == SVG_render(items, drawables)
        IN ItemCall(Call("render", None, drawables, 0, Omitted, Omitted, doc.err),
                    items, doc)

\* ------------------------------------------------------------------------
\* The Point of primitives.py (from section 4.1 of the specification): a value
\* that stands for an absolute pair; each method returns the new pair
\* ------------------------------------------------------------------------
Point_translated(p, dx, dy) == <<p[1] + dx, p[2] + dy>>

Point_rotated(p, angle_deg, c) ==
    <<c[1] + (p[1] - c[1]) * CosDeg(angle_deg) - (p[2] - c[2]) * SinDeg(angle_deg),
      c[2] + (p[1] - c[1]) * SinDeg(angle_deg) + (p[2] - c[2]) * CosDeg(angle_deg)>>

Point_scaled(p, sx, sy, c) == <<c[1] + (p[1] - c[1]) * sx, c[2] + (p[2] - c[2]) * sy>>

\* the reflection across the line through `point` at `angle` degrees
Point_mirrored(p, point, angle) ==
    LET dx == CosDeg(angle)
        dy == SinDeg(angle)
        vx == p[1] - point[1]
        vy == p[2] - point[2]
        dot == vx * dx + vy * dy
    IN <<point[1] + 2 * dot * dx - vx, point[2] + 2 * dot * dy - vy>>

\* ------------------------------------------------------------------------
\* Primitives: the transforms of Arc
\* ------------------------------------------------------------------------
\* copy.deepcopy(h[i]): a new object at the end of the heap, and for a Group new
\* objects for everything below it; memo[k] is the copy of k once k is copied,
\* so that an object reached twice is copied once
RECURSIVE Primitive_deepcopy(_, _, _)
RECURSIVE Primitive_deepcopy_elements(_, _, _, _, _)

Primitive_deepcopy_elements(h, elems, k, memo, acc) ==
    IF k > Len(elems) THEN [heap |-> h, objs |-> acc, memo |-> memo]
    ELSE LET r == Primitive_deepcopy(h, elems[k], memo)
         IN Primitive_deepcopy_elements(r.heap, elems, k + 1, r.memo, Append(acc, r.obj))

Primitive_deepcopy(h, i, memo) ==
    IF memo[i] # None THEN [heap |-> h, obj |-> memo[i], memo |-> memo]
    ELSE LET new == Len(h) + 1
             h1 == Append(h, h[i])
             memo1 == [memo EXCEPT ![i] = new]
         IN IF h[i].kind # "Group" THEN [heap |-> h1, obj |-> new, memo |-> memo1]
            ELSE LET r == Primitive_deepcopy_elements(h1, h[i].elements, 1, memo1, <<>>)
                 IN [heap |-> [r.heap EXCEPT ![new].elements = r.objs],
                     obj |-> new, memo |-> r.memo]

\* _maybe_copy with copy.copy: the new Group holds the elements of the receiver
Primitive_maybe_copy_shallow(h, i, copy) ==
    IF copy THEN [heap |-> Append(h, h[i]), obj |-> Len(h) + 1]
    ELSE [heap |-> h, obj |-> i]

\* _maybe_copy: the object the transform works on, a deep copy of the receiver
\* or the receiver itself
Primitive_maybe_copy(h, i, copy) ==
    IF copy
    THEN LET r == Primitive_deepcopy(h, i, [k \in 1..Len(h) |-> None])
         IN [heap |-> r.heap, obj |-> r.obj]
    ELSE [heap |-> h, obj |-> i]

\* `center or self.center_point`: the pivot given, else the center of the arc
Arc_pivot(it, center) == IF center.kind # "none" THEN <<center.cx, center.cy>>
                         ELSE it.center_point

Arc_translate(h, i, dx, dy, copy) ==
    LET m == Primitive_maybe_copy(h, i, copy)
    IN [m EXCEPT !.heap[m.obj].center_point = Point_translated(@, dx, dy)]

\* rotate that turns the end angle only
Arc_rotate_end_only(h, i, angle_deg, center, copy) ==
    LET c == Arc_pivot(h[i], center)
        m == Primitive_maybe_copy(h, i, copy)
    IN [m EXCEPT !.heap[m.obj].center_point = Point_rotated(@, angle_deg, c),
                 !.heap[m.obj].end_angle = @ + angle_deg]

Arc_rotate(h, i, angle_deg, center, copy) ==
    LET c == Arc_pivot(h[i], center)
        m == Primitive_maybe_copy(h, i, copy)
    IN [m EXCEPT !.heap[m.obj].center_point = Point_rotated(@, angle_deg, c),
                 !.heap[m.obj].start_angle = @ + angle_deg,
                 !.heap[m.obj].end_angle = @ + angle_deg]

\* radius * (scale_x + scale_y) / 2 is a whole number where ArcResize calls this
Arc_resize(h, i, scale_x, scale_y, center, copy) ==
    LET c == Arc_pivot(h[i], center)
        m == Primitive_maybe_copy(h, i, copy)
    IN [m EXCEPT !.heap[m.obj].center_point = Point_scaled(@, scale_x, scale_y, c),
                 !.heap[m.obj].radius = (@ * (scale_x + scale_y)) \div 2]

Arc_mirror(h, i, point, angle, copy) ==
    LET m == Primitive_maybe_copy(h, i, copy)
    IN [m EXCEPT !.heap[m.obj].center_point = Point_mirrored(@, point, angle)]

LiveArcs == {i \in LiveItems : items[i].kind = "Arc"}

\* <<angle_deg, center>> handed to Arc.rotate: without and with a pivot
ArcTurns == {<<90, Omitted>>, <<270, Tup(1, 2)>>}
\* <<scale_x, scale_y, center>> handed to Arc.resize
ArcResizes == {<<2, 3, Omitted>>, <<-1, -1, Tup(1, 2)>>}

\* Arc(center, radius, start_angle, end_angle)
NewArc ==
    /\ items = <<>>
    /\ \E a \in ArcAngles :
        ItemCall(Call("Arc", Len(items) + 1, a[1], a[2], Omitted, Omitted, "none"),
                 Append(items, Arc(<<4, 4>>, 10, a[1], a[2], Style(None, None))),
                 Len(items) + 1)

\* a transform of an Arc that gives m: with copy a new object, without it the
\* receiver, changed in place (once in a behaviour)
ArcTransform(c, copy, m) ==
    /\ copy => Len(items) < MaxItems
    /\ ~copy => ~moved
    /\ ItemStep(c, m.heap, m.obj)
    /\ moved' = (moved \/ ~copy)

ArcTranslate ==
    \E i \in LiveArcs, d \in {<<-2, 3>>}, copy \in BOOLEAN :
        ArcTransform(Call("Arc.translate", i, d[1], d[2], Omitted, Omitted, "none"),
                     copy, Arc_translate(items, i, d[1], d[2], copy))

ArcRotate ==
    \E i \in LiveArcs, t \in ArcTurns, copy \in BOOLEAN :
        ArcTransform(Call("Arc.rotate", i, t[1], 0, t[2], Omitted, "none"),
                     copy, Arc_rotate(items, i, t[1], t[2], copy))

ArcResize ==
    \E i \in LiveArcs, f \in ArcResizes, copy \in BOOLEAN :
        /\ (items[i].radius * (f[1] + f[2])) % 2 = 0
        /\ ArcTransform(Call("Arc.resize", i, f[1], f[2], f[3], Omitted, "none"),
                        copy, Arc_resize(items, i, f[1], f[2], f[3], copy))

ArcMirror ==
    \E i \in LiveArcs, a \in MirrorAngles, copy \in BOOLEAN :
        ArcTransform(Call("Arc.mirror", i, a, 0, Tup(1, 2), Omitted, "none"),
                     copy, Arc_mirror(items, i, <<1, 2>>, a, copy))

\* ------------------------------------------------------------------------
\* Primitives: center() and the transforms of every variant.  A transform
\* gives [heap, obj]: the heap after the call and the object it returns.
\* The divisions of center() are exact wherever the actions call these.
\* ------------------------------------------------------------------------
\* `center or <default>`: the pivot given, else the default of the variant
Pivot(center, default) ==
    IF center.kind # "none" THEN <<center.cx, center.cy>> ELSE default

\* --- Line ---
Line_center(it) ==
    <<(it.start[1] + it.end[1]) \div 2, (it.start[2] + it.end[2]) \div 2>>

Line_translate(h, i, dx, dy, copy) ==
    LET m == Primitive_maybe_copy(h, i, copy)
    IN [m EXCEPT !.heap[m.obj].start = Point_translated(@, dx, dy),
                 !.heap[m.obj].end = Point_translated(@, dx, dy)]

Line_rotate(h, i, angle_deg, center, copy) ==
    LET c == Pivot(center, Line_center(h[i]))
        m == Primitive_maybe_copy(h, i, copy)
    IN [m EXCEPT !.heap[m.obj].start = Point_rotated(@, angle_deg, c),
                 !.heap[m.obj].end = Point_rotated(@, angle_deg, c)]

Line_resize(h, i, scale_x, scale_y, center, copy) ==
    LET c == Pivot(center, Line_center(h[i]))
        m == Primitive_maybe_copy(h, i, copy)
    IN [m EXCEPT !.heap[m.obj].start = Point_scaled(@, scale_x, scale_y, c),
                 !.heap[m.obj].end = Point_scaled(@, scale_x, scale_y, c)]

Line_mirror(h, i, point, angle, copy) ==
    LET m == Primitive_maybe_copy(h, i, copy)
    IN [m EXCEPT !.heap[m.obj].start = Point_mirrored(@, point, angle),
                 !.heap[m.obj].end = Point_mirrored(@, point, angle)]

\* --- Circle ---
Circle_center(it) == it.center_point

Circle_translate(h, i, dx, dy, copy) ==
    LET m == Primitive_maybe_copy(h, i, copy)
    IN [m EXCEPT !.heap[m.obj].center_point = Point_translated(@, dx, dy)]

Circle_rotate(h, i, angle_deg, center, copy) ==
    LET c == Pivot(center, h[i].center_point)
        m == Primitive_maybe_copy(h, i, copy)
    IN [m EXCEPT !.heap[m.obj].center_point = Point_rotated(@, angle_deg, c)]

\* resize that scales the radius by the x factor alone
Circle_resize_radius_by_scale_x(h, i, scale_x, scale_y, center, copy) ==
    LET c == Pivot(center, h[i].center_point)
        m == Primitive_maybe_copy(h, i, copy)
    IN [m EXCEPT !.heap[m.obj].center_point = Point_scaled(@, scale_x, scale_y, c),
                 !.heap[m.obj].radius = @ * scale_x]

\* radius * (scale_x + scale_y) / 2 is a whole number where the actions call this
Circle_resize(h, i, scale_x, scale_y, center, copy) ==
    LET c == Pivot(center, h[i].center_point)
        m == Primitive_maybe_copy(h, i, copy)
    IN [m EXCEPT !.heap[m.obj].center_point = Point_scaled(@, scale_x, scale_y, c),
                 !.heap[m.obj].radius = (@ * (scale_x + scale_y)) \div 2]

Circle_mirror(h, i, point, angle, copy) ==
    LET m == Primitive_maybe_copy(h, i, copy)
    IN [m EXCEPT !.heap[m.obj].center_point = Point_mirrored(@, point, angle)]

\* --- Rectangle ---
Rectangle_center(it) ==
    <<it.pos[1] + it.size[1] \div 2, it.pos[2] + it.size[2] \div 2>>

Rectangle_translate(h, i, dx, dy, copy) ==
    LET m == Primitive_maybe_copy(h, i, copy)
    IN [m EXCEPT !.heap[m.obj].pos = Point_translated(@, dx, dy)]

Rectangle_rotate(h, i, angle_deg, center, copy) ==
    LET c == Pivot(center, Rectangle_center(h[i]))
        m == Primitive_maybe_copy(h, i, copy)
    IN [m EXCEPT !.heap[m.obj].pos = Point_rotated(@, angle_deg, c)]

Rectangle_resize(h, i, scale_x, scale_y, center, copy) ==
    LET c == Pivot(center, Rectangle_center(h[i]))
        m == Primitive_maybe_copy(h, i, copy)
    IN [m EXCEPT !.heap[m.obj].pos = Point_scaled(@, scale_x, scale_y, c),
                 !.heap[m.obj].size = <<@[1] * scale_x, @[2] * scale_y>>]

Rectangle_mirror(h, i, point, angle, copy) ==
    LET m == Primitive_maybe_copy(h, i, copy)
    IN [m EXCEPT !.heap[m.obj].pos = Point_mirrored(@, point, angle)]

\* --- Polyline ---
RECURSIVE SeqSum(_, _)
SeqSum(q, k) == IF k > Len(q) THEN 0 ELSE q[k] + SeqSum(q, k + 1)

Polyline_center(it) ==
    IF it.points = <<>> THEN <<0, 0>>
    ELSE <<SeqSum([k \in DOMAIN it.points |-> it.points[k][1]], 1) \div Len(it.points),
           SeqSum([k \in DOMAIN it.points |-> it.points[k][2]], 1) \div Len(it.points)>>

Polyline_translate(h, i, dx, dy, copy) ==
    LET m == Primitive_maybe_copy(h, i, copy)
    IN [m EXCEPT !.heap[m.obj].points =
                     [k \in DOMAIN @ |-> Point_translated(@[k], dx, dy)]]

Polyline_rotate(h, i, angle_deg, center, copy) ==
    LET c == Pivot(center, Polyline_center(h[i]))
        m == Primitive_maybe_copy(h, i, copy)
    IN [m EXCEPT !.heap[m.obj].points =
                     [k \in DOMAIN @ |-> Point_rotated(@[k], angle_deg, c)]]

Polyline_resize(h, i, scale_x, scale_y, center, copy) ==
    LET c == Pivot(center, Polyline_center(h[i]))
        m == Primitive_maybe_copy(h, i, copy)
    IN [m EXCEPT !.heap[m.obj].points =
                     [k \in DOMAIN @ |-> Point_scaled(@[k], scale_x, scale_y, c)]]

Polyline_mirror(h, i, point, angle, copy) ==
    LET m == Primitive_maybe_copy(h, i, copy)
    IN [m EXCEPT !.heap[m.obj].points =
                     [k \in DOMAIN @ |-> Point_mirrored(@[k], point, angle)]]

\* --- Arc: the transforms are above ---
Arc_center(it) == it.center_point

\* --- Text ---
Text_center(it) == it.pos

Text_translate(h, i, dx, dy, copy) ==
    LET m == Primitive_maybe_copy(h, i, copy)
    IN [m EXCEPT !.heap[m.obj].pos = Point_translated(@, dx, dy)]

Text_rotate(h, i, angle_deg, center, copy) ==
    LET c == Pivot(center, h[i].pos)
        m == Primitive_maybe_copy(h, i, copy)
    IN [m EXCEPT !.heap[m.obj].pos = Point_rotated(@, angle_deg, c)]

Text_resize(h, i, scale_x, scale_y, center, copy) ==
    LET c == Pivot(center, h[i].pos)
        m == Primitive_maybe_copy(h, i, copy)
    IN [m EXCEPT !.heap[m.obj].pos = Point_scaled(@, scale_x, scale_y, c)]

Text_mirror(h, i, point, angle, copy) ==
    LET m == Primitive_maybe_copy(h, i, copy)
    IN [m EXCEPT !.heap[m.obj].pos = Point_mirrored(@, point, angle)]

\* --- Group, and the dispatch on the class of the receiver ---
RECURSIVE Primitive_center(_, _)
RECURSIVE Primitive_translate(_, _, _, _, _)
RECURSIVE Primitive_rotate(_, _, _, _, _)
RECURSIVE Primitive_resize(_, _, _, _, _, _)
RECURSIVE Primitive_mirror(_, _, _, _, _)

\* e.center() of the elements of a group, in order
Group_centers(h, elems) == [k \in DOMAIN elems |-> Primitive_center(h, elems[k])]

Group_center(h, i) ==
    LET cs == Group_centers(h, h[i].elements)
    IN IF h[i].elements = <<>> THEN <<0, 0>>
       ELSE <<SeqSum([k \in DOMAIN cs |-> cs[k][1]], 1) \div Len(cs),
              SeqSum([k \in DOMAIN cs |-> cs[k][2]], 1) \div Len(cs)>>

\* the loops `for e in obj.elements: e.<transform>(..., copy=False)`, from the
\* k-th element on
RECURSIVE Group_translate_each(_, _, _, _, _)
Group_translate_each(h, elems, k, dx, dy) ==
    IF k > Len(elems) THEN h
    ELSE Group_translate_each(Primitive_translate(h, elems[k], dx, dy, FALSE).heap,
                              elems, k + 1, dx, dy)

RECURSIVE Group_rotate_each(_, _, _, _, _)
Group_rotate_each(h, elems, k, angle_deg, c) ==
    IF k > Len(elems) THEN h
    ELSE Group_rotate_each(Primitive_rotate(h, elems[k], angle_deg, c, FALSE).heap,
                           elems, k + 1, angle_deg, c)

RECURSIVE Group_resize_each(_, _, _, _, _, _)
Group_resize_each(h, elems, k, scale_x, scale_y, c) ==
    IF k > Len(elems) THEN h
    ELSE Group_resize_each(Primitive_resize(h, elems[k], scale_x, scale_y, c, FALSE).heap,
                           elems, k + 1, scale_x, scale_y, c)

RECURSIVE Group_mirror_each(_, _, _, _, _)
Group_mirror_each(h, elems, k, point, angle) ==
    IF k > Len(elems) THEN h
    ELSE Group_mirror_each(Primitive_mirror(h, elems[k], point, angle, FALSE).heap,
                           elems, k + 1, point, angle)

Group_translate(h, i, dx, dy, copy) ==
    LET m == Primitive_maybe_copy(h, i, copy)
    IN [m EXCEPT !.heap = Group_translate_each(@, @[m.obj].elements, 1, dx, dy)]

\* rotate in which every element turns about the pivot it would choose itself
Group_rotate_pivot_per_element(h, i, angle_deg, center, copy) ==
    LET m == Primitive_maybe_copy(h, i, copy)
    IN [m EXCEPT !.heap = Group_rotate_each(@, @[m.obj].elements, 1, angle_deg, center)]

Group_rotate(h, i, angle_deg, center, copy) ==
    LET c == Pivot(center, Group_center(h, i))
        m == Primitive_maybe_copy(h, i, copy)
    IN [m EXCEPT !.heap = Group_rotate_each(@, @[m.obj].elements, 1, angle_deg,
                                            Tup(c[1], c[2]))]

Group_resize(h, i, scale_x, scale_y, center, copy) ==
    LET c == Pivot(center, Group_center(h, i))
        m == Primitive_maybe_copy(h, i, copy)
    IN [m EXCEPT !.heap = Group_resize_each(@, @[m.obj].elements, 1, scale_x, scale_y,
                                            Tup(c[1], c[2]))]

Group_mirror(h, i, point, angle, copy) ==
    LET m == Primitive_maybe_copy(h, i, copy)
    IN [m EXCEPT !.heap = Group_mirror_each(@, @[m.obj].elements, 1, point, angle)]

Primitive_center(h, i) ==
    CASE h[i].kind = "Line" -> Line_center(h[i])
      [] h[i].kind = "Circle" -> Circle_center(h[i])
      [] h[i].kind = "Rectangle" -> Rectangle_center(h[i])
      [] h[i].kind = "Polyline" -> Polyline_center(h[i])
      [] h[i].kind = "Arc" -> Arc_center(h[i])
      [] h[i].kind = "Text" -> Text_center(h[i])
      [] h[i].kind = "Group" -> Group_center(h, i)

Primitive_translate(h, i, dx, dy, copy) ==
    CASE h[i].kind = "Line" -> Line_translate(h, i, dx, dy, copy)
      [] h[i].kind = "Circle" -> Circle_translate(h, i, dx, dy, copy)
      [] h[i].kind = "Rectangle" -> Rectangle_translate(h, i, dx, dy, copy)
      [] h[i].kind = "Polyline" -> Polyline_translate(h, i, dx, dy, copy)
      [] h[i].kind = "Arc" -> Arc_translate(h, i, dx, dy, copy)
      [] h[i].kind = "Text" -> Text_translate(h, i, dx, dy, copy)
      [] h[i].kind = "Group" -> Group_translate(h, i, dx, dy, copy)

Primitive_rotate(h, i, angle_deg, center, copy) ==
    CASE h[i].kind = "Line" -> Line_rotate(h, i, angle_deg, center, copy)
      [] h[i].kind = "Circle" -> Circle_rotate(h, i, angle_deg, center, copy)
      [] h[i].kind = "Rectangle" -> Rectangle_rotate(h, i, angle_deg, center, copy)
      [] h[i].kind = "Polyline" -> Polyline_rotate(h, i, angle_deg, center, copy)
      [] h[i].kind = "Arc" -> Arc_rotate(h, i, angle_deg, center, copy)
      [] h[i].kind = "Text" -> Text_rotate(h, i, angle_deg, center, copy)
      [] h[i].kind = "Group" -> Group_rotate(h, i, angle_deg, center, copy)

Primitive_resize(h, i, scale_x, scale_y, center, copy) ==
    CASE h[i].kind = "Line" -> Line_resize(h, i, scale_x, scale_y, center, copy)
      [] h[i].kind = "Circle" -> Circle_resize(h, i, scale_x, scale_y, center, copy)
      [] h[i].kind = "Rectangle" -> Rectangle_resize(h, i, scale_x, scale_y, center, copy)
      [] h[i].kind = "Polyline" -> Polyline_resize(h, i, scale_x, scale_y, center, copy)
      [] h[i].kind = "Arc" -> Arc_resize(h, i, scale_x, scale_y, center, copy)
      [] h[i].kind = "Text" -> Text_resize(h, i, scale_x, scale_y, center, copy)
      [] h[i].kind = "Group" -> Group_resize(h, i, scale_x, scale_y, center, copy)

Primitive_mirror(h, i, point, angle, copy) ==
    CASE h[i].kind = "Line" -> Line_mirror(h, i, point, angle, copy)
      [] h[i].kind = "Circle" -> Circle_mirror(h, i, point, angle, copy)
      [] h[i].kind = "Rectangle" -> Rectangle_mirror(h, i, point, angle, copy)
      [] h[i].kind = "Polyline" -> Polyline_mirror(h, i, point, angle, copy)
      [] h[i].kind = "Arc" -> Arc_mirror(h, i, point, angle, copy)
      [] h[i].kind = "Text" -> Text_mirror(h, i, point, angle, copy)
      [] h[i].kind = "Group" -> Group_mirror(h, i, point, angle, copy)

\* Primitive.scale: `if center is None: center = self.center()`, then resize
Primitive_scale(h, i, factor, center, copy) ==
    LET c == Primitive_center(h, i)
    IN Primitive_resize(h, i, factor, factor,
                        IF center = Omitted THEN Tup(c[1], c[2]) ELSE center, copy)

\* --- the scenes the transforms are called on ---
\* one primitive of each variant that holds coordinates; the centers are whole
Figures ==
    {Line(<<-1, 2>>, <<3, 0>>, Style(None, None)),
     Circle(<<2, 1>>, 10, Style(None, None)),
     Rectangle(<<1, 1>>, <<4, 2>>, Style(None, None)),
     Polyline(<<<<2, 7>>, <<-3, 1>>, <<1, 1>>>>, Style(None, None)),
     Arc(<<4, 4>>, 10, 0, 270, Style(None, None)),
     Text(<<5, -1>>, Style(None, None))}

\* the variants that have a radius or a size
SizedFigures == {f \in Figures : f.kind \in {"Circle", "Rectangle", "Arc"}}
\* the variants a group is built of in the scenes of nested groups
PlainFigures == {f \in Figures : f.kind \in {"Line", "Text"}}

\* <<scale_x, scale_y, center>> handed to resize
Resizes == ArcResizes \cup {<<3, -1, Omitted>>, <<1, -1, Omitted>>}
\* <<factor, center>> handed to scale
Scales == {<<3, Omitted>>, <<-2, Tup(1, 2)>>}

\* the divisions of center() leave no remainder
RECURSIVE CenterIsWhole(_, _)
CenterIsWhole(h, i) ==
    LET it == h[i]
    IN CASE it.kind = "Line" ->
              (it.start[1] + it.end[1]) % 2 = 0 /\ (it.start[2] + it.end[2]) % 2 = 0
         [] it.kind = "Rectangle" -> it.size[1] % 2 = 0 /\ it.size[2] % 2 = 0
         [] it.kind = "Polyline" ->
              IF it.points = <<>> THEN TRUE
              ELSE /\ SeqSum([k \in DOMAIN it.points |-> it.points[k][1]], 1)
                         % Len(it.points) = 0
                   /\ SeqSum([k \in DOMAIN it.points |-> it.points[k][2]], 1)
                         % Len(it.points) = 0
         [] it.kind = "Group" ->
              IF it.elements = <<>> THEN TRUE
              ELSE /\ \A k \in DOMAIN it.elements : CenterIsWhole(h, it.elements[k])
                   /\ LET cs == Group_centers(h, it.elements)
                      IN /\ SeqSum([k \in DOMAIN cs |-> cs[k][1]], 1) % Len(cs) = 0
                         /\ SeqSum([k \in DOMAIN cs |-> cs[k][2]], 1) % Len(cs) = 0
         [] OTHER -> TRUE

\* radius * (scale_x + scale_y) / 2 leaves no remainder, however often it is
\* taken below the receiver
RadiusIsWhole(h, i, scale_x, scale_y) ==
    IF (scale_x + scale_y) % 2 = 0 THEN TRUE
    ELSE IF h[i].kind \in {"Circle", "Arc"}
         THEN (h[i].radius * (scale_x + scale_y)) % 2 = 0
         ELSE h[i].kind # "Group"

\* the record of a call of a transform: its arguments and the copy flag
PrimitiveCall(op, i, a, b, center, copy) ==
    [op |-> op, node |-> i, a |-> a, b |-> b, c1 |-> center, c2 |-> Omitted,
     err |-> "none", ret |-> i, copy |-> copy]

\* Line(...), Circle(...), ...: a primitive of any variant
NewFigure ==
    /\ ~moved
    /\ Len(items) < MaxItems
    /\ \E f \in Figures :
        ItemCall(Call(f.kind, Len(items) + 1, 0, 0, Omitted, Omitted, "none"),
                 Append(items, f), Len(items) + 1)

\* Circle(...), Rectangle(...), Arc(...)
NewSized ==
    /\ ~moved
    /\ Len(items) < MaxItems
    /\ \E f \in SizedFigures :
        ItemCall(Call(f.kind, Len(items) + 1, 0, 0, Omitted, Omitted, "none"),
                 Append(items, f), Len(items) + 1)

\* Line(...), Text(...)
NewPlain ==
    /\ ~moved
    /\ Len(items) < MaxItems
    /\ \E f \in PlainFigures :
        ItemCall(Call(f.kind, Len(items) + 1, 0, 0, Omitted, Omitted, "none"),
                 Append(items, f), Len(items) + 1)

\* Group(elements=[...]) of items that exist
NewBundle ==
    /\ ~moved
    /\ Len(items) < MaxItems
    /\ \E elems \in ItemLists :
        ItemCall(Call("Group", Len(items) + 1, 0, 0, Omitted, Omitted, "none"),
                 Append(items, Group(elems, Style(None, None))), Len(items) + 1)

\* one transform in a behaviour: m is what it gives
PrimitiveTransform(c, m) ==
    /\ ItemStep(c, m.heap, m.obj)
    /\ moved' = TRUE

PrimitiveTranslate ==
    /\ ~moved
    /\ \E i \in LiveItems, copy \in BOOLEAN :
        PrimitiveTransform(PrimitiveCall("Primitive.translate", i, -2, 3, Omitted, copy),
                           Primitive_translate(items, i, -2, 3, copy))

PrimitiveRotate ==
    /\ ~moved
    /\ \E i \in LiveItems, t \in ArcTurns, copy \in BOOLEAN :
        /\ t[2] = Omitted => CenterIsWhole(items, i)
        /\ PrimitiveTransform(PrimitiveCall("Primitive.rotate", i, t[1], 0, t[2], copy),
                              Primitive_rotate(items, i, t[1], t[2], copy))

PrimitiveResize ==
    /\ ~moved
    /\ \E i \in LiveItems, f \in Resizes, copy \in BOOLEAN :
        /\ f[3] = Omitted => CenterIsWhole(items, i)
        /\ RadiusIsWhole(items, i, f[1], f[2])
        /\ PrimitiveTransform(PrimitiveCall("Primitive.resize", i, f[1], f[2], f[3], copy),
                              Primitive_resize(items, i, f[1], f[2], f[3], copy))

PrimitiveScale ==
    /\ ~moved
    /\ \E i \in LiveItems, f \in Scales, copy \in BOOLEAN :
        /\ f[2] = Omitted => CenterIsWhole(items, i)
        /\ PrimitiveTransform(PrimitiveCall("Primitive.scale", i, f[1], f[1], f[2], copy),
                              Primitive_scale(items, i, f[1], f[2], copy))

PrimitiveMirror ==
    /\ ~moved
    /\ \E i \in LiveItems, a \in MirrorAngles, copy \in BOOLEAN :
        PrimitiveTransform(PrimitiveCall("Primitive.mirror", i, a, 0, Tup(1, 2), copy),
                           Primitive_mirror(items, i, <<1, 2>>, a, copy))

\* ------------------------------------------------------------------------
\* PythonBackend, and a Primitive subclass that is none of the seven variants
\* ------------------------------------------------------------------------
\* one line of the generated program: what it states and the item it is for
Statement(stmt, i) == [stmt |-> stmt, item |-> i]

RECURSIVE PythonBackend_render_primitive(_, _)
RECURSIVE PythonBackend_render_elements(_, _, _)

PythonBackend_render_elements(h, elems, k) ==
    IF k > Len(elems) THEN <<>>
    ELSE PythonBackend_render_primitive(h, elems[k])
             \o PythonBackend_render_elements(h, elems, k + 1)

PythonBackend_render_group(h, i) ==
    <<Statement("Group", i)>> \o PythonBackend_render_elements(h, h[i].elements, 1)
                              \o <<Statement("add", i)>>

\* _render_primitive: the chain of isinstance tests ends with `return []`
PythonBackend_render_primitive(h, i) ==
    CASE h[i].kind = "Group" -> PythonBackend_render_group(h, i)
      [] h[i].kind \in {"Line", "Circle", "Rectangle", "Polyline", "Arc", "Text"} ->
             <<Statement("add", i)>>
      [] OTHER -> <<>>

\* render_to_string of a standalone backend: header, body, footer
PythonBackend_render_to_string(h, drawables) ==
    Emitted(<<Statement("import", None), Statement("", None), Statement("Drawing", None)>>
            \o PythonBackend_render_elements(h, drawables, 1)
            \o <<Statement("", None), Statement("render_to_file", None)>>)

\* an object of a subclass of Primitive that is none of the seven variants
Custom(style) == [kind |-> "Custom", style |-> style]

NewCustom ==
    /\ Len(items) < MaxItems
    /\ ItemCall(Call("Custom", Len(items) + 1, 0, 0, Omitted, Omitted, "none"),
                Append(items, Custom(Style(None, None))), Len(items) + 1)

\* Line(...), at any place in the scene
NewLine ==
    /\ Len(items) < MaxItems
    /\ ItemCall(Call("Line", Len(items) + 1, 0, 0, Omitted, Omitted, "none"),
                Append(items, Line(<<0, 0>>, <<1, 1>>, Style(None, None))),
                Len(items) + 1)

\* PythonBackend().render_to_string(drawables)
RenderPython ==
    \E drawables \in {<<>>} \cup {<<i>> : i \in LiveItems} :
        LET program == PythonBackend_render_to_string(items, drawables)
        IN ItemCall(Call("render_to_string", None, drawables, 0, Omitted, Omitted,
                         program.err),
                    items, program)

\* ------------------------------------------------------------------------
\* Drawing
\* ------------------------------------------------------------------------
\* an object handed to Drawing.add: its class and its identity
Object(cls, id) == [cls |-> cls, id |-> id]

\* isinstance(i, (Primitive, Group))
IsPrimitive(o) ==
    o.cls \in {"Line", "Circle", "Rectangle", "Polyline", "Arc", "Text", "Group"}

\* what add gives: the list, and the exception that ended the loop if any
Added(e, l) == [err |-> e, elements |-> l]

\* add that leaves out an item the drawing already holds
RECURSIVE Drawing_add_no_duplicates(_, _, _)
Drawing_add_no_duplicates(l, args, k) ==
    IF k > Len(args) THEN Added("none", l)
    ELSE IF IsPrimitive(args[k])
         THEN Drawing_add_no_duplicates(IF args[k] \in Range(l) THEN l
                                        ELSE Append(l, args[k]), args, k + 1)
         ELSE Added("TypeError", l)

\* add(*items): the loop from the k-th item on
RECURSIVE Drawing_add(_, _, _)
Drawing_add(l, args, k) ==
    IF k > Len(args) THEN Added("none", l)
    ELSE IF IsPrimitive(args[k])
         THEN Drawing_add(Append(l, args[k]), args, k + 1)
         ELSE Added("TypeError", l)

Drawing_clear(l) == <<>>

\* __iter__: yield from self.elements
Drawing_iter(l) == [k \in 1..Len(l) |-> l[k]]

DrawingAdd ==
    \E args \in AddArgs :
        /\ Len(elements) + Len(args) <= MaxElements
        /\ LET r == Drawing_add(elements, args, 1)
           IN DrawingCall(Call("add", None, args, 0, Omitted, Omitted, r.err), r.elements)

DrawingClear ==
    DrawingCall(Call("clear", None, 0, 0, Omitted, Omitted, "none"),
                Drawing_clear(elements))

\* ------------------------------------------------------------------------
\* Assignment to the parent attribute
\* ------------------------------------------------------------------------
\* `parent` is a plain attribute of Point and a slot of Pose: p.parent = q stores
\* q, whatever q is
Point_set_parent(h, p, q) == [h EXCEPT ![p].parent = q]

Pose_set_parent(h, p, q) == [h EXCEPT ![p].parent = q]

PointSetParent ==
    /\ \E p \in Live, q \in {None} \cup Live :
        PointCall(Call("Point.parent=", p, q, 0, Omitted, Omitted, "none"),
                  Point_set_parent(pt, p, q))
    /\ UNCHANGED <<frozen, moved>>

PoseSetParent ==
    /\ \E p \in LivePose, q \in {None} \cup LivePose :
        PoseCall(Call("Pose.parent=", p, q, 0, Omitted, Omitted, "none"),
                 Pose_set_parent(po, p, q))
    /\ UNCHANGED moved

\* ------------------------------------------------------------------------
\* Specifications
\* ------------------------------------------------------------------------
\* a forest of Points: construction, detach and one transform
Next ==
    \/ NewPoint
    \/ Detach
    \/ Translate
    \/ Rotate
    \/ Scale
    \/ Mirror
    \/ Flip

Spec == Init /\ [][Next]_vars

\* the same, with the ancestors lost by each detach written down
NextDetach ==
    \/ NewPoint
    \/ DetachTracked
    \/ Translate
    \/ Rotate
    \/ Scale
    \/ Flip

SpecDetach == Init /\ [][NextDetach]_vars

\* Points and Poses side by side: the transforms that take a pivot or an axis
NextNodes ==
    \/ NewPoint
    \/ NewPose
    \/ Rotate
    \/ Scale
    \/ Mirror
    \/ PoseRotate
    \/ PoseScale
    \/ PoseMirror

SpecNodes == Init /\ [][NextNodes]_vars

\* construction and re-parenting of Points and Poses
NextReparent ==
    \/ NewPoint
    \/ NewPose
    \/ PointSetParent
    \/ PoseSetParent

SpecReparent == Init /\ [][NextReparent]_vars

\* Points in one another's frames: construction, one translation, to_local
NextLocal ==
    \/ NewPoint
    \/ Translate
    \/ ToLocal

SpecLocal == Init /\ [][NextLocal]_vars

\* chains built with the directional constructors of Point and of Pose
NextBeside ==
    \/ NewPoint
    \/ NewPose
    \/ PointBeside
    \/ PoseBeside

SpecBeside == Init /\ [][NextBeside]_vars

\* one styled primitive and the styles it inherits
NextStyle ==
    \/ NewStyled
    \/ ApplyStyle

SpecStyle == Init /\ [][NextStyle]_vars

\* scenes of styled lines in nested styled groups, rendered
NextCascade ==
    \/ NewStyledLine
    \/ NewStyledGroup
    \/ Render

SpecCascade == Init /\ [][NextCascade]_vars

\* scenes of primitives of every variant in nested groups, rendered
NextScene ==
    \/ NewShape
    \/ NewGroup
    \/ Render

SpecScene == Init /\ [][NextScene]_vars

\* a drawing that is added to and cleared
NextDrawing ==
    \/ DrawingAdd
    \/ DrawingClear

SpecDrawing == Init /\ [][NextDrawing]_vars

\* an Arc and its transforms, each giving a copy or changing the receiver
NextArc ==
    \/ NewArc
    \/ ArcTranslate
    \/ ArcRotate
    \/ ArcResize
    \/ ArcMirror

SpecArc == Init /\ [][NextArc]_vars

\* circles, rectangles and arcs, and one transform of one of them
NextSized ==
    \/ NewSized
    \/ PrimitiveResize
    \/ PrimitiveScale

SpecSized == Init /\ [][NextSized]_vars

\* lines and texts in nested groups, and one transform of an item of the scene
NextGroups ==
    \/ NewPlain
    \/ NewBundle
    \/ PrimitiveTranslate
    \/ PrimitiveRotate
    \/ PrimitiveResize
    \/ PrimitiveScale
    \/ PrimitiveMirror

SpecGroups == Init /\ [][NextGroups]_vars

\* primitives of every variant in groups, and one transform of one of them
NextFigures ==
    \/ NewFigure
    \/ NewBundle
    \/ PrimitiveTranslate
    \/ PrimitiveRotate
    \/ PrimitiveResize
    \/ PrimitiveScale
    \/ PrimitiveMirror

SpecFigures == Init /\ [][NextFigures]_vars

\* scenes that hold an object of an unknown variant, rendered by both engines
NextCustom ==
    \/ NewLine
    \/ NewCustom
    \/ NewGroup
    \/ Render
    \/ RenderPython

SpecCustom == Init /\ [][NextCustom]_vars

\* chains of Poses, their world positions and the points they map
NextChain ==
    \/ NewPose
    \/ PoseOffset
    \/ PoseWorld
    \/ PoseApply

SpecChain == Init /\ [][NextChain]_vars

\* ------------------------------------------------------------------------
\* Vocabulary of the properties
\* ------------------------------------------------------------------------
IsTransform(op) == op \in {"translate", "rotate", "scale", "mirror", "flip_lr", "flip_ud"}

Minus(u, v) == <<u[1] - v[1], u[2] - v[2]>>
Dot(u, v) == u[1] * v[1] + u[2] * v[2]
Cross(u, v) == u[1] * v[2] - u[2] * v[1]

\* the absolute position a PointLike argument stands for
PointLikeAbs(h, r) == IF r.kind = "point" THEN Point_abs(h, r.ref) ELSE <<r.cx, r.cy>>

\* p and its ancestors, and the sum of the local offsets of a set of nodes
Chain(h, p) == {p} \cup Ancestors(h, p)

RECURSIVE OffsetSum(_, _)
OffsetSum(h, S) ==
    IF S = {} THEN <<0, 0>>
    ELSE LET q == CHOOSE q \in S : TRUE
             r == OffsetSum(h, S \ {q})
         IN <<r[1] + h[q].x, r[2] + h[q].y>>

\* P turned by a degrees about C, written out for each quarter turn
RotateAbout(P, a, C) ==
    CASE a = 90 -> <<C[1] - (P[2] - C[2]), C[2] + (P[1] - C[1])>>
      [] a = 180 -> <<2 * C[1] - P[1], 2 * C[2] - P[2]>>
      [] a = 270 -> <<C[1] + (P[2] - C[2]), C[2] - (P[1] - C[1])>>

\* ------------------------------------------------------------------------
\* C1: translating an ancestor q of p by (dx, dy), whether q is the parent of p
\* or further up the chain, moves abs() of p by exactly (dx, dy) and leaves the
\* local (x, y) of p as they were.
\* ------------------------------------------------------------------------
C1_TranslateAncestorMovesNode ==
    last.op = "translate" =>
        \A p \in Live :
            last.node \in Ancestors(pre.pt, p) =>
                /\ Point_abs(pt, p) = <<Point_abs(pre.pt, p)[1] + last.a,
                                        Point_abs(pre.pt, p)[2] + last.b>>
                /\ Point_rel(pt, p) = Point_rel(pre.pt, p)

\* a grandparent has been translated along both axes
C1_Witness ==
    /\ last.op = "translate"
    /\ last.a # 0 /\ last.b # 0
    /\ \E p \in Live :
        /\ last.node \in Ancestors(pre.pt, p)
        /\ last.node # pre.pt[p].parent

\* ------------------------------------------------------------------------
\* C2: in every reachable state abs() of a node is the sum of the local offsets
\* along its current parent chain (its own coordinates for a root), and a
\* transform of a node shows at once in abs() of that node and of each of its
\* descendants: they all move by what the node's local coordinates moved.
\* ------------------------------------------------------------------------
C2_AbsIsSumOfChain ==
    /\ \A p \in Live : Point_abs(pt, p) = OffsetSum(pt, Chain(pt, p))
    /\ IsTransform(last.op) =>
        \A p \in Live :
            last.node \in Chain(pre.pt, p) =>
                Minus(Point_abs(pt, p), Point_abs(pre.pt, p))
                    = Minus(Point_rel(pt, last.node), Point_rel(pre.pt, last.node))

\* the root of a chain of three has been moved by a transform
C2_Witness ==
    /\ IsTransform(last.op)
    /\ Point_rel(pt, last.node) # Point_rel(pre.pt, last.node)
    /\ \E p \in Live :
        /\ Cardinality(Ancestors(pt, p)) = 2
        /\ last.node \in Ancestors(pt, p)
        /\ pt[last.node].parent = None

\* ------------------------------------------------------------------------
\* C4: detach() keeps abs() of the node, stores that absolute value in its
\* local (x, y), sets its parent to None and returns the node; abs() of every
\* other node, the descendants of the detached node included, is unchanged.
\* ------------------------------------------------------------------------
C4_DetachKeepsAbs ==
    last.op = "detach" =>
        /\ Point_abs(pt, last.node) = Point_abs(pre.pt, last.node)
        /\ Point_rel(pt, last.node) = Point_abs(pre.pt, last.node)
        /\ pt[last.node].parent = None
        /\ last.ret = last.node
        /\ \A q \in Live \ {last.node} : Point_abs(pt, q) = Point_abs(pre.pt, q)

\* a node with a parent away from the origin and with a child has been detached
C4_Witness ==
    /\ last.op = "detach"
    /\ pre.pt[last.node].parent # None
    /\ Point_abs(pre.pt, last.node) # Point_rel(pre.pt, last.node)
    /\ \E d \in Live : last.node \in Ancestors(pt, d)

\* ------------------------------------------------------------------------
\* C5: once p is detached, a later transform of its former parent or of any
\* other former ancestor leaves abs() of p alone, while the descendants of p
\* still follow a later transform of p.
\* ------------------------------------------------------------------------
C5_DetachedIsFrozen ==
    IsTransform(last.op) =>
        \A p \in Live :
            /\ last.node \in frozen[p] => Point_abs(pt, p) = Point_abs(pre.pt, p)
            /\ (frozen[p] # {} /\ last.node = p) =>
                \A d \in Live :
                    p \in Ancestors(pt, d) =>
                        Minus(Point_abs(pt, d), Point_abs(pre.pt, d))
                            = Minus(Point_abs(pt, p), Point_abs(pre.pt, p))

\* a former ancestor of a detached node has moved after the detach
C5_Witness ==
    /\ IsTransform(last.op)
    /\ Point_abs(pt, last.node) # Point_abs(pre.pt, last.node)
    /\ \E p \in Live : last.node \in frozen[p]

\* a detached node that has a child has moved after the detach
C5_WitnessDescendant ==
    /\ IsTransform(last.op)
    /\ Point_abs(pt, last.node) # Point_abs(pre.pt, last.node)
    /\ frozen[last.node] # {}
    /\ \E d \in Live : last.node \in Ancestors(pt, d)

\* ------------------------------------------------------------------------
\* C3: a construction or an assignment to parent that would make a Point or a
\* Pose its own ancestor fails with an error, so that no reachable state has a
\* cycle in a parent chain.
\* ------------------------------------------------------------------------
\* the nodes met by following at most k parent links upward from q
RECURSIVE Climb(_, _, _)
Climb(h, q, k) ==
    IF q = None \/ k = 0 THEN {} ELSE {q} \cup Climb(h, h[q].parent, k - 1)

\* p is met again when climbing from its parent
OwnAncestor(h, p) == p \in Climb(h, h[p].parent, Len(h))

C3_CyclesAreRejected ==
    /\ \A p \in Live : ~OwnAncestor(pt, p)
    /\ \A p \in LivePose : ~OwnAncestor(po, p)
    /\ last.op = "Point.parent=" /\ OwnAncestor(Point_set_parent(pre.pt, last.node, last.a),
                                                last.node)
           => last.err # "none"
    /\ last.op = "Pose.parent=" /\ OwnAncestor(Pose_set_parent(pre.po, last.node, last.a),
                                               last.node)
           => last.err # "none"

\* ------------------------------------------------------------------------
\* C6 as stated: with the pivot omitted, rotate(angle) and scale(sx, sy) leave
\* the position of the node, local and absolute, unchanged, for a Point and for
\* a Pose.
\* ------------------------------------------------------------------------
PoseXY(h, p) == <<h[p].dx, h[p].dy>>
PoseWorldXY(h, p) == <<Pose_world(h, p)[1], Pose_world(h, p)[2]>>

C6_PoseKeepsPosition ==
    (last.op \in {"Pose.rotate", "Pose.scale"} /\ last.c1.kind = "none") =>
        /\ PoseXY(po, last.node) = PoseXY(pre.po, last.node)
        /\ PoseWorldXY(po, last.node) = PoseWorldXY(pre.po, last.node)

C6_NoPivotIsNoOp ==
    /\ C6_PoseKeepsPosition
    /\ (last.op \in {"rotate", "scale"} /\ last.c1.kind = "none") =>
        /\ Point_rel(pt, last.node) = Point_rel(pre.pt, last.node)
        /\ Point_abs(pt, last.node) = Point_abs(pre.pt, last.node)

\* C6 as amended: with the pivot omitted, Pose.rotate and Pose.scale leave the
\* position of the pose unchanged, while Point.rotate and Point.scale turn and
\* scale the local (x, y) of the point about the local origin (0, 0), that is,
\* about the absolute position of its parent (the absolute origin for a root).
ParentAbs(h, p) == IF h[p].parent = None THEN <<0, 0>> ELSE Point_abs(h, h[p].parent)

C6_NoPivotIsLocalOrigin ==
    /\ C6_PoseKeepsPosition
    /\ (last.op = "rotate" /\ last.c1.kind = "none") =>
        /\ Point_rel(pt, last.node)
               = RotateAbout(Point_rel(pre.pt, last.node), last.a, <<0, 0>>)
        /\ Point_abs(pt, last.node)
               = RotateAbout(Point_abs(pre.pt, last.node), last.a,
                             ParentAbs(pre.pt, last.node))
    /\ (last.op = "scale" /\ last.c1.kind = "none") =>
        LET sy == IF last.b = NoArg THEN last.a ELSE last.b[1]
        IN Point_rel(pt, last.node)
               = <<last.a * pre.pt[last.node].x, sy * pre.pt[last.node].y>>

\* a Point with a parent has been rotated without a pivot, and has moved
C6_Witness ==
    /\ last.op = "rotate"
    /\ last.c1.kind = "none"
    /\ pre.pt[last.node].parent # None
    /\ Point_abs(pt, last.node) # Point_abs(pre.pt, last.node)

\* a Pose with a parent has been rotated without a pivot
C6_WitnessPose ==
    /\ last.op = "Pose.rotate"
    /\ last.c1.kind = "none"
    /\ pre.po[last.node].parent # None
    /\ po[last.node].dtheta # pre.po[last.node].dtheta

\* ------------------------------------------------------------------------
\* C7: rotate(angle, pivot) of a Point, the pivot being an absolute tuple or a
\* Point, turns abs() of the node by angle about the absolute position of the
\* pivot; the parent links and every node that is not a descendant of the node
\* are unchanged.
\* ------------------------------------------------------------------------
C7_RotateAboutPivot ==
    (last.op = "rotate" /\ last.c1.kind # "none") =>
        /\ Point_abs(pt, last.node)
               = RotateAbout(Point_abs(pre.pt, last.node), last.a,
                             PointLikeAbs(pre.pt, last.c1))
        /\ \A q \in Live :
            /\ pt[q].parent = pre.pt[q].parent
            /\ (q # last.node /\ last.node \notin Ancestors(pre.pt, q)) =>
                /\ pt[q] = pre.pt[q]
                /\ Point_abs(pt, q) = Point_abs(pre.pt, q)

\* a node whose parent is away from the origin has been turned by 90 degrees
\* about another Point, and has moved
C7_Witness ==
    /\ last.op = "rotate"
    /\ last.a = 90
    /\ last.c1.kind = "point"
    /\ last.c1.ref # last.node
    /\ pre.pt[last.node].parent # None
    /\ Point_abs(pt, last.node) # Point_abs(pre.pt, last.node)

\* ------------------------------------------------------------------------
\* C8: scale(sx, sy, pivot) of a Point makes abs() of the node
\* pivot + (sx * (abs_x - pivot_x), sy * (abs_y - pivot_y)), where an omitted sy
\* stands for sx.
\* ------------------------------------------------------------------------
C8_ScaleAboutPivot ==
    (last.op = "scale" /\ last.c1.kind # "none") =>
        LET sy == IF last.b = NoArg THEN last.a ELSE last.b[1]
            c == PointLikeAbs(pre.pt, last.c1)
            a == Point_abs(pre.pt, last.node)
        IN Point_abs(pt, last.node)
               = <<c[1] + last.a * (a[1] - c[1]), c[2] + sy * (a[2] - c[2])>>

\* a node with a parent has been scaled with sy omitted about a pivot that is
\* off its own position along y
C8_Witness ==
    /\ last.op = "scale"
    /\ last.b = NoArg
    /\ last.c1.kind # "none"
    /\ pre.pt[last.node].parent # None
    /\ Point_abs(pre.pt, last.node)[2] # PointLikeAbs(pre.pt, last.c1)[2]

C10_DegenerateAxisRaises ==
    /\ (last.op = "mirror"
            /\ PointLikeAbs(pre.pt, last.c1) = PointLikeAbs(pre.pt, last.c2)) =>
        /\ last.err = "ValueError"
        /\ pt = pre.pt
    /\ (last.op = "Pose.mirror" /\ last.a = 0 /\ last.b = 0) =>
        /\ last.err = "ValueError"
        /\ po = pre.po

\* Point.mirror has been called with a tuple and a Point that stand at one place
C10_Witness ==
    /\ last.op = "mirror"
    /\ last.c1.kind = "tuple"
    /\ last.c2.kind = "point"
    /\ PointLikeAbs(pre.pt, last.c1) = PointLikeAbs(pre.pt, last.c2)
    /\ pre.pt[last.node].parent # None

\* Pose.mirror has been called with the axis vector (0, 0)
C10_WitnessPose ==
    /\ last.op = "Pose.mirror"
    /\ last.a = 0 /\ last.b = 0
    /\ last.err = "ValueError"

\* ------------------------------------------------------------------------
\* C11: to_local is the inverse of abs(): for every node n and every absolute
\* point q, the absolute position of the parent of n ((0, 0) for a root) plus
\* n.to_local(q) is q; n.to_local(n) is n.rel(); a Point argument stands for
\* its abs(); to_local changes no node.
\* ------------------------------------------------------------------------
Plus(u, v) == <<u[1] + v[1], u[2] + v[2]>>

C11_ToLocalInvertsAbs ==
    last.op = "to_local" =>
        /\ Plus(ParentAbs(pre.pt, last.node), last.ret) = PointLikeAbs(pre.pt, last.c1)
        /\ last.c1 = Ref(last.node) => last.ret = Point_rel(pre.pt, last.node)
        /\ last.c1.kind = "point" =>
               last.ret = Point_to_local(pre.pt, last.node,
                                         Tup(Point_abs(pre.pt, last.c1.ref)[1],
                                             Point_abs(pre.pt, last.c1.ref)[2]))
        /\ pt = pre.pt

\* to_local of a node under a grandparent has been asked for another Point,
\* and the answer differs from that Point's absolute position
C11_Witness ==
    /\ last.op = "to_local"
    /\ Cardinality(Ancestors(pt, last.node)) = 2
    /\ last.c1.kind = "point"
    /\ last.c1.ref # last.node
    /\ last.ret # Point_abs(pt, last.c1.ref)

\* ------------------------------------------------------------------------
\* C12: right_of(d), left_of(d), above(d) and below(d) of a Point create a new
\* node whose parent is the receiver and whose abs() is the receiver's abs()
\* plus (d, 0), (-d, 0), (0, -d) and (0, d); chained calls add up; the receiver
\* and every other existing node are not modified.
\* ------------------------------------------------------------------------
BesideVector(op, d) ==
    CASE op = "right_of" -> <<d, 0>>
      [] op = "left_of" -> <<-d, 0>>
      [] op = "above" -> <<0, -d>>
      [] op = "below" -> <<0, d>>

IsPointBeside(op) == op \in {"right_of", "left_of", "above", "below"}

C12_BesideOffsetsFromReceiver ==
    IsPointBeside(last.op) =>
        LET n == Len(pt)
            v == BesideVector(last.op, last.a)
        IN /\ n = Len(pre.pt) + 1
           /\ pt[n].parent = last.node
           /\ Point_abs(pt, n) = Plus(Point_abs(pre.pt, last.node), v)
           /\ pre.pt[last.node].parent # None =>
                  Point_abs(pt, n)
                      = Plus(Plus(Point_abs(pre.pt, pre.pt[last.node].parent),
                                  Point_rel(pre.pt, last.node)), v)
           /\ SubSeq(pt, 1, Len(pre.pt)) = pre.pt

\* root.right_of(5).above(5): the new node is at the root plus (5, -5)
C12_Witness ==
    /\ last.op = "above"
    /\ last.a = 5
    /\ pre.pt[last.node] = Point_init(5, 0, pre.pt[last.node].parent)
    /\ pre.pt[last.node].parent # None
    /\ Point_abs(pt, Len(pt))
           = Plus(Point_abs(pt, pre.pt[last.node].parent), <<5, -5>>)

\* ------------------------------------------------------------------------
\* C13: one sign convention for the directional constructors: for a receiver
\* at the origin with zero rotation and unit scale, above(d) yields absolute
\* y = -d and below(d) yields absolute y = +d, for Point and for Pose alike.
\* ------------------------------------------------------------------------
C13_OneSignConvention ==
    /\ (last.op \in {"above", "below"} /\ Point_abs(pre.pt, last.node) = <<0, 0>>) =>
           Point_abs(pt, Len(pt))[2] = (IF last.op = "above" THEN -last.a ELSE last.a)
    /\ (/\ last.op \in {"Pose.above", "Pose.below"}
        /\ Pose_world(pre.po, last.node) = <<0, 0, 0>>
        /\ pre.po[last.node].sx = 1 /\ pre.po[last.node].sy = 1) =>
           Pose_world(po, Len(po))[2]
               = (IF last.op = "Pose.above" THEN -last.a ELSE last.a)

\* ------------------------------------------------------------------------
\* C14: style merge picks, per attribute, the own value when it is set and the
\* inherited value otherwise, and is associative: merge(a, merge(b, c)) is
\* merge(merge(a, b), c) for all combinations of set and unset attributes.
\* ------------------------------------------------------------------------
C14_MergeOwnFirstAssociative ==
    last.op = "apply_style" =>
        LET a == items[last.node].style
        IN /\ last.a = NoArg => last.ret = a
           /\ (last.a # NoArg /\ last.b = NoArg) =>
                  \A k \in StyleAttrs :
                      last.ret[k] = (IF a[k] # None THEN a[k] ELSE last.a[1][k])
           /\ (last.a # NoArg /\ last.b # NoArg) =>
                  last.ret = Style_merge(Style_merge(a, last.a[1]), last.b[1])

\* a has stroke unset and fill set, b sets stroke, c sets another stroke and
\* another fill: the result takes stroke from b and fill from a
C14_Witness ==
    /\ last.op = "apply_style"
    /\ last.a # NoArg /\ last.b # NoArg
    /\ items[last.node].style["stroke"] = None
    /\ items[last.node].style["fill"] # None
    /\ last.a[1]["stroke"] # None
    /\ last.b[1]["stroke"] \notin {None, last.a[1]["stroke"]}
    /\ last.b[1]["fill"] \notin {None, items[last.node].style["fill"]}
    /\ last.ret["stroke"] = last.a[1]["stroke"]
    /\ last.ret["fill"] = items[last.node].style["fill"]

\* ------------------------------------------------------------------------
\* Vocabulary of the properties of a rendered scene
\* ------------------------------------------------------------------------
Rendered == last.op = "render" /\ last.err = "none"

\* the items of a scene: the drawables and, at any depth, the elements of groups
RECURSIVE Within(_, _)
Within(h, S) ==
    LET inner == UNION {Range(h[g].elements) : g \in {i \in S : h[i].kind = "Group"}}
    IN IF inner \subseteq S THEN S ELSE Within(h, S \cup inner)

SceneItems == Within(items, Range(last.a))

\* ------------------------------------------------------------------------
\* C15: during serialization the style resolved for a primitive nested in the
\* groups G1 (outermost) ... Gn (innermost) has, for every attribute, the value
\* of the nearest of [primitive, Gn, ..., G1] that sets it, and is unset only
\* if none sets it, whatever the depth and although each group's style is
\* merged twice on the way down.
\* ------------------------------------------------------------------------
\* the value of attribute k at the last item of the chain that sets it
NearestSetter(h, chain, k) ==
    LET setters == {n \in DOMAIN chain : h[chain[n]].style[k] # None}
    IN IF setters = {} THEN None
       ELSE h[chain[CHOOSE n \in setters : \A m \in setters : m <= n]].style[k]

C15_NearestSetterWins ==
    Rendered =>
        \A n \in DOMAIN last.ret.out :
            LET e == last.ret.out[n]
            IN e.tag # "g" =>
                   \A k \in StyleAttrs :
                       e.style[k] = NearestSetter(items, Append(e.path, e.item), k)

\* a line without a style of its own, in a group that sets stroke, in a group
\* that sets another stroke and fill: stroke of the inner, fill of the outer
C15_Witness ==
    /\ Rendered
    /\ \E n \in DOMAIN last.ret.out :
        LET e == last.ret.out[n]
        IN /\ e.tag = "line"
           /\ Len(e.path) = 2
           /\ items[e.item].style = Style(None, None)
           /\ items[e.path[2]].style["stroke"] # None
           /\ items[e.path[1]].style["stroke"]
                  \notin {None, items[e.path[2]].style["stroke"]}
           /\ items[e.path[2]].style["fill"] = None
           /\ items[e.path[1]].style["fill"] # None
           /\ e.style["stroke"] = items[e.path[2]].style["stroke"]
           /\ e.style["fill"] = items[e.path[1]].style["fill"]

\* ------------------------------------------------------------------------
\* C17: a scene that contributes no coordinates, an empty scene or one that
\* holds only (recursively) empty groups, is rendered with the default
\* viewport: min (-10, -10), max (110, 110), width 120 and height 120.
\* ------------------------------------------------------------------------
OnlyGroups == \A i \in SceneItems : items[i].kind = "Group"

C17_DefaultViewport ==
    (last.op = "render" /\ OnlyGroups) =>
        /\ last.err = "none"
        /\ last.ret.min_x = -10 /\ last.ret.min_y = -10
        /\ last.ret.min_x + last.ret.width = 110
        /\ last.ret.min_y + last.ret.height = 110
        /\ last.ret.width = 120 /\ last.ret.height = 120

\* a group that holds an empty group has been rendered
C17_Witness ==
    /\ last.op = "render"
    /\ OnlyGroups
    /\ \E g \in Range(last.a) : items[g].elements # <<>>

\* ------------------------------------------------------------------------
\* C18: for a scene that contributes at least one coordinate the bounds are
\* (minX - 10, minY - 10, maxX + 10, maxY + 10) over all contributed
\* coordinates: both endpoints of a Line, center +/- radius of a Circle and of
\* an Arc, pos and pos + size of a Rectangle, every vertex of a Polyline, the
\* anchor of a Text, and for a Group those of its children at any depth; so
\* every contributed coordinate is at least 10 inside the viewport, and width
\* and height are at least 20.
\* ------------------------------------------------------------------------
\* the points an item contributes
Contributed(it) ==
    CASE it.kind = "Line" -> {it.start, it.end}
      [] it.kind \in {"Circle", "Arc"} ->
            {<<it.center_point[1] - it.radius, it.center_point[2] - it.radius>>,
             <<it.center_point[1] + it.radius, it.center_point[2] + it.radius>>}
      [] it.kind = "Rectangle" ->
            {it.pos, <<it.pos[1] + it.size[1], it.pos[2] + it.size[2]>>}
      [] it.kind = "Polyline" -> Range(it.points)
      [] it.kind = "Text" -> {it.pos}
      [] OTHER -> {}

SceneCoords == UNION {Contributed(items[i]) : i \in SceneItems}

SetMin(S) == CHOOSE m \in S : \A v \in S : m <= v
SetMax(S) == CHOOSE m \in S : \A v \in S : m >= v

BoundsAreMinMaxPlusMargin ==
    LET X == {c[1] : c \in SceneCoords}
        Y == {c[2] : c \in SceneCoords}
        d == last.ret
    IN /\ d.min_x = SetMin(X) - 10
       /\ d.min_y = SetMin(Y) - 10
       /\ d.min_x + d.width = SetMax(X) + 10
       /\ d.min_y + d.height = SetMax(Y) + 10
       /\ \A c \in SceneCoords :
              /\ d.min_x + 10 <= c[1] /\ c[1] <= d.min_x + d.width - 10
              /\ d.min_y + 10 <= c[2] /\ c[2] <= d.min_y + d.height - 10
       /\ d.width >= 20 /\ d.height >= 20

C18_BoundsCoverAllCoordinates ==
    (last.op = "render" /\ SceneCoords # {}) =>
        /\ last.err = "none"
        /\ BoundsAreMinMaxPlusMargin

\* ------------------------------------------------------------------------
\* C19: an Arc is serialized with largeArcFlag = 1 exactly when
\* |end_angle - start_angle| > 180 (a span of exactly 180 gives 0) and with
\* the sweep flag 1, for every pair of angles.
\* ------------------------------------------------------------------------
C19_ArcIsSerializedWithFlags ==
    last.op = "render" =>
        \A i \in SceneItems :
            items[i].kind = "Arc" =>
                /\ last.err = "none"
                /\ \E n \in DOMAIN last.ret.out : last.ret.out[n].item = i
                /\ \A n \in DOMAIN last.ret.out :
                       last.ret.out[n].item = i =>
                           /\ last.ret.out[n].tag = "path"
                           /\ last.ret.out[n].flags[1]
                                  = (IF items[i].end_angle - items[i].start_angle > 180
                                        \/ items[i].start_angle - items[i].end_angle > 180
                                     THEN 1 ELSE 0)
                           /\ last.ret.out[n].flags[2] = 1

\* ------------------------------------------------------------------------
\* C16: after any sequence of add and clear calls, iterating the drawing yields
\* exactly the items accepted since the last clear, in the order they were
\* added, duplicates kept; add of anything that is not a Primitive or a Group
\* raises TypeError; clear leaves the list empty.
\* ------------------------------------------------------------------------
\* the items of an argument list that come before the first one that is no
\* primitive
AcceptedOf(args) ==
    LET bad == {k \in DOMAIN args : ~IsPrimitive(args[k])}
    IN IF bad = {} THEN args
       ELSE SubSeq(args, 1, (CHOOSE k \in bad : \A m \in bad : k <= m) - 1)

C16_IterationIsInsertionOrder ==
    /\ \A k \in DOMAIN elements : IsPrimitive(elements[k])
    /\ last.op = "add" =>
           /\ Drawing_iter(elements) = Drawing_iter(pre.elements) \o AcceptedOf(last.a)
           /\ last.err = (IF \E k \in DOMAIN last.a : ~IsPrimitive(last.a[k])
                          THEN "TypeError" ELSE "none")
    /\ last.op = "clear" => Drawing_iter(elements) = <<>>

\* an item the drawing already holds has been added once more, and the next
\* item of the same call has been refused
C16_Witness ==
    /\ last.op = "add"
    /\ Len(last.a) > 1
    /\ last.a[1] \in Range(pre.elements)
    /\ last.err = "TypeError"
    /\ Len(elements) = Len(pre.elements) + 1
    /\ pre.elements # <<>>

\* a drawing that held items has been cleared
C16_WitnessClear ==
    /\ last.op = "clear"
    /\ pre.elements # <<>>

\* ------------------------------------------------------------------------
\* C20: for an Arc, rotate(angle) adds angle to both start_angle and end_angle,
\* and translate, resize and mirror leave both angles unchanged; so
\* end_angle - start_angle, and with it the large-arc flag computed from the
\* two angles, is after each transform what it was before it, and hence after
\* any sequence of transforms what it was at construction.
\* ------------------------------------------------------------------------
IsArcTransform(op) == op \in {"Arc.translate", "Arc.rotate", "Arc.resize", "Arc.mirror"}

C20_ArcSpanIsKept ==
    /\ IsArcTransform(last.op) =>
           LET old == pre.items[last.node]
               new == items[last.ret]
               turn == IF last.op = "Arc.rotate" THEN last.a ELSE 0
           IN /\ new.start_angle = old.start_angle + turn
              /\ new.end_angle = old.end_angle + turn
              /\ new.end_angle - new.start_angle = old.end_angle - old.start_angle
              /\ SVG_large_arc_flag(new.start_angle, new.end_angle)
                     = SVG_large_arc_flag(old.start_angle, old.end_angle)
    /\ \A i \in LiveArcs :
           \E a \in ArcAngles : items[i].end_angle - items[i].start_angle = a[2] - a[1]

\* an arc of span 270 that is the outcome of an earlier transform has been
\* turned by 90 degrees: its angles have moved and its flag is still 1
C20_Witness ==
    /\ last.op = "Arc.rotate"
    /\ last.a = 90
    /\ pre.items[last.node] # Arc(<<4, 4>>, 10, 0, 270, Style(None, None))
    /\ items[last.ret].end_angle - items[last.ret].start_angle = 270
    /\ items[last.ret].start_angle # pre.items[last.node].start_angle
    /\ SVG_large_arc_flag(items[last.ret].start_angle, items[last.ret].end_angle) = 1

\* ------------------------------------------------------------------------
\* C21: resize(sx, sy) multiplies the radius of a Circle and of an Arc by
\* (sx + sy) / 2 and the size of a Rectangle by (sx, sy) component by
\* component, and scale(f) gives what resize(f, f) gives.
\* ------------------------------------------------------------------------
IsPrimitiveTransform(op) ==
    op \in {"Primitive.translate", "Primitive.rotate", "Primitive.resize",
            "Primitive.scale", "Primitive.mirror"}

C21_ResizeRules ==
    /\ last.op = "Primitive.resize" =>
           LET old == pre.items[last.node]
               new == items[last.ret]
           IN /\ old.kind \in {"Circle", "Arc"} =>
                     2 * new.radius = old.radius * (last.a + last.b)
              /\ old.kind = "Rectangle" =>
                     new.size = <<old.size[1] * last.a, old.size[2] * last.b>>
    /\ last.op = "Primitive.scale" =>
           LET m == Primitive_resize(pre.items, last.node, last.a, last.a,
                                     last.c1, last.copy)
           IN items = m.heap /\ last.ret = m.obj

\* a Circle of radius 10 resized by (2, 3) has radius 25, and a Rectangle
\* of size (4, 2) resized by (2, 3) has size (8, 6)
C21_Witness ==
    /\ last.op = "Primitive.resize"
    /\ last.a = 2
    /\ last.b = 3
    /\ pre.items[last.node].kind = "Circle"
    /\ pre.items[last.node].radius = 10
    /\ items[last.ret].radius = 25

C21_WitnessRectangle ==
    /\ last.op = "Primitive.resize"
    /\ last.a = 2
    /\ last.b = 3
    /\ pre.items[last.node].kind = "Rectangle"
    /\ items[last.ret].size = <<8, 6>>

C21_WitnessScale ==
    /\ last.op = "Primitive.scale"
    /\ last.c1 = Omitted
    /\ pre.items[last.node].kind = "Rectangle"
    /\ items[last.ret].size = <<12, 6>>

\* ------------------------------------------------------------------------
\* C22: the radius of every Circle and of every Arc is never negative, at
\* construction and after any transform with any scale factors.
\* ------------------------------------------------------------------------
C22_RadiusIsNeverNegative ==
    \A i \in LiveItems :
        items[i].kind \in {"Circle", "Arc"} => items[i].radius >= 0

\* ------------------------------------------------------------------------
\* C23: Group.translate(dx, dy) moves every coordinate referenced anywhere
\* below the group by exactly (dx, dy), once, also when an object is
\* referenced more than once below the group.
\* ------------------------------------------------------------------------
\* the coordinates met on a walk through item i and everything below it, in
\* order; what is referenced twice is met twice
RECURSIVE Coordinates(_, _)
RECURSIVE CoordinatesOfAll(_, _, _)

CoordinatesOfAll(h, elems, k) ==
    IF k > Len(elems) THEN <<>>
    ELSE Coordinates(h, elems[k]) \o CoordinatesOfAll(h, elems, k + 1)

Coordinates(h, i) ==
    CASE h[i].kind = "Line" -> <<h[i].start, h[i].end>>
      [] h[i].kind \in {"Circle", "Arc"} -> <<h[i].center_point>>
      [] h[i].kind \in {"Rectangle", "Text"} -> <<h[i].pos>>
      [] h[i].kind = "Polyline" -> h[i].points
      [] h[i].kind = "Group" -> CoordinatesOfAll(h, h[i].elements, 1)

C23_GroupTranslateIsRigid ==
    (last.op = "Primitive.translate" /\ pre.items[last.node].kind = "Group") =>
        LET old == Coordinates(pre.items, last.node)
        IN Coordinates(items, last.ret) =
               [k \in DOMAIN old |-> Plus(old[k], <<last.a, last.b>>)]

\* ------------------------------------------------------------------------
\* C24: rendering a scene that holds, at any depth, an object that is none
\* of the seven variants raises an error and gives no document.
\* ------------------------------------------------------------------------
C24_UnknownVariantRaises ==
    (/\ last.op \in {"render", "render_to_string"}
     /\ \E i \in SceneItems : items[i].kind = "Custom")
        => last.err # "none"

\* ------------------------------------------------------------------------
\* C25: in every element of the document, a style attribute that is unset
\* in the resolved style is written with its fixed default (stroke "black",
\* fill "none", opacity 1, font-size 10, font-family "sans-serif",
\* text-anchor "start"), and no value is the text of an unset field.
\* ------------------------------------------------------------------------
\* the field of Style an attribute of an element is written from
StyleField(k) ==
    CASE k = "stroke-width" -> "stroke_width"
      [] k = "stroke-dasharray" -> "dash"
      [] k = "stroke-linecap" -> "linecap"
      [] k = "stroke-linejoin" -> "linejoin"
      [] k = "font-size" -> "font_size"
      [] k = "font-family" -> "font_family"
      [] k = "text-anchor" -> "text_anchor"
      [] OTHER -> k

FixedDefaults ==
    [stroke |-> "black", fill |-> "none", opacity |-> "1"]
        @@ ("font-size" :> "10") @@ ("font-family" :> "sans-serif")
        @@ ("text-anchor" :> "start")

C25_UnsetAttributesGetDefaults ==
    Rendered =>
        \A n \in DOMAIN last.ret.out :
            LET e == last.ret.out[n]
            IN \A k \in DOMAIN e.attrs :
                   e.style[StyleField(k)] = None =>
                       /\ e.attrs[k] # "None"
                       /\ k \in DOMAIN FixedDefaults => e.attrs[k] = FixedDefaults[k]

\* ------------------------------------------------------------------------
\* C26: Pose.world() maps the local offset of a pose through the scale and
\* the rotation of every ancestor, Pose.apply(point) maps a local point
\* through the same whole chain, and P.apply((a, b)) is the world position
\* of the child P.offset(a, b).
\* ------------------------------------------------------------------------
\* the point v of the frame of pose p, in world coordinates: scaled and turned
\* by p, moved to p's offset, and so on through every ancestor of p
RECURSIVE ThroughChain(_, _, _)
ThroughChain(h, p, v) ==
    LET x == v[1] * h[p].sx
        y == v[2] * h[p].sy
        u == <<h[p].dx + x * CosDeg(h[p].dtheta) - y * SinDeg(h[p].dtheta),
               h[p].dy + x * SinDeg(h[p].dtheta) + y * CosDeg(h[p].dtheta)>>
    IN IF h[p].parent = None THEN u ELSE ThroughChain(h, h[p].parent, u)

WorldPosition(h, p) ==
    IF h[p].parent = None THEN PoseXY(h, p)
    ELSE ThroughChain(h, h[p].parent, PoseXY(h, p))

C26_WorldComposesWholeChain ==
    /\ last.op = "Pose.world" =>
           <<last.ret[1], last.ret[2]>> = WorldPosition(po, last.node)
    /\ last.op = "Pose.apply" =>
           /\ last.ret = ThroughChain(po, last.node, <<last.a, last.b>>)
           /\ last.ret = PoseWorldXY(Pose_offset(po, last.node, last.a, last.b, 0),
                                     Len(po) + 1)

\* ------------------------------------------------------------------------
\* C27: Group.rotate and Group.resize resolve the pivot once, before any
\* element is changed (the pivot given, else the average of the centers of
\* the elements), and everything below the group, at any depth, is turned
\* or scaled about that one pivot; a nested group does not take its own
\* center.
\* ------------------------------------------------------------------------
\* the item each coordinate of Coordinates(h, i) belongs to
RECURSIVE Owners(_, _)
RECURSIVE OwnersOfAll(_, _, _)

OwnersOfAll(h, elems, k) ==
    IF k > Len(elems) THEN <<>>
    ELSE Owners(h, elems[k]) \o OwnersOfAll(h, elems, k + 1)

Owners(h, i) ==
    IF h[i].kind = "Group" THEN OwnersOfAll(h, h[i].elements, 1)
    ELSE [k \in DOMAIN Coordinates(h, i) |-> i]

\* how often item j is met on the walk through item g
References(h, g, j) == Cardinality({k \in DOMAIN Owners(h, g) : Owners(h, g)[k] = j})
                           \div Len(Coordinates(h, j))

\* P turned n times by a degrees about C
TurnedAbout(P, a, n, C) ==
    IF (a * n) % 360 = 0 THEN P ELSE RotateAbout(P, (a * n) % 360, C)

\* P scaled n times by (sx, sy) about C
RECURSIVE ScaledAbout(_, _, _, _, _)
ScaledAbout(P, sx, sy, n, C) ==
    IF n = 0 THEN P
    ELSE ScaledAbout(<<C[1] + (P[1] - C[1]) * sx, C[2] + (P[2] - C[2]) * sy>>,
                     sx, sy, n - 1, C)

\* the average of the centers of the elements of group g
MeanOfCenters(h, g) ==
    LET cs == [k \in DOMAIN h[g].elements |-> Primitive_center(h, h[g].elements[k])]
    IN <<SeqSum([k \in DOMAIN cs |-> cs[k][1]], 1) \div Len(cs),
         SeqSum([k \in DOMAIN cs |-> cs[k][2]], 1) \div Len(cs)>>

IsGroupTurnOrResize ==
    /\ last.op \in {"Primitive.rotate", "Primitive.resize"}
    /\ pre.items[last.node].kind = "Group"
    /\ pre.items[last.node].elements # <<>>

C27_GroupPivotResolvedOnce ==
    IsGroupTurnOrResize =>
        LET g == last.node
            c == IF last.c1.kind # "none" THEN <<last.c1.cx, last.c1.cy>>
                 ELSE MeanOfCenters(pre.items, g)
            old == Coordinates(pre.items, g)
            own == Owners(pre.items, g)
            new == Coordinates(items, last.ret)
        IN /\ Len(new) = Len(old)
           /\ \A k \in DOMAIN old :
                  LET n == References(pre.items, g, own[k])
                  IN new[k] = IF last.op = "Primitive.rotate"
                              THEN TurnedAbout(old[k], last.a, n, c)
                              ELSE ScaledAbout(old[k], last.a, last.b, n, c)

\* a group of two elements with different centers has been turned with no
\* pivot given: the pivot is neither element's own center
C27_Witness ==
    /\ IsGroupTurnOrResize
    /\ last.op = "Primitive.rotate"
    /\ last.c1 = Omitted
    /\ Len(pre.items[last.node].elements) = 2
    /\ \A k \in {1, 2} :
           Primitive_center(pre.items, pre.items[last.node].elements[k])
               # MeanOfCenters(pre.items, last.node)
    /\ Coordinates(items, last.ret) # Coordinates(pre.items, last.node)

\* a group that holds a group has been turned or resized about a pivot that is
\* not the center of the inner group
C27_WitnessNested ==
    /\ IsGroupTurnOrResize
    /\ \E k \in DOMAIN pre.items[last.node].elements :
           LET e == pre.items[last.node].elements[k]
           IN /\ pre.items[e].kind = "Group"
              /\ pre.items[e].elements # <<>>
              /\ last.c1.kind # "none"
              /\ Primitive_center(pre.items, e) # <<last.c1.cx, last.c1.cy>>
    /\ Coordinates(items, last.ret) # Coordinates(pre.items, last.node)

\* ------------------------------------------------------------------------
\* C28: a transform (translate, rotate, resize, scale, mirror) called with
\* copy=True returns a new object that carries the transformed geometry and
\* leaves the receiver and, for a Group, everything below it unchanged;
\* called with copy=False it changes the receiver and returns the receiver.
\* ------------------------------------------------------------------------
\* item i written out as a value: a Group with the values of its elements
RECURSIVE Unfolded(_, _)
Unfolded(h, i) ==
    IF h[i].kind = "Group"
    THEN [kind |-> "Group", style |-> h[i].style,
          elements |-> [k \in DOMAIN h[i].elements |-> Unfolded(h, h[i].elements[k])]]
    ELSE h[i]

\* what the call c gives on heap h with the copy flag set to copy
Applied(h, c, copy) ==
    CASE c.op = "Primitive.translate" -> Primitive_translate(h, c.node, c.a, c.b, copy)
      [] c.op = "Primitive.rotate" -> Primitive_rotate(h, c.node, c.a, c.c1, copy)
      [] c.op = "Primitive.resize" -> Primitive_resize(h, c.node, c.a, c.b, c.c1, copy)
      [] c.op = "Primitive.scale" -> Primitive_scale(h, c.node, c.a, c.c1, copy)
      [] c.op = "Primitive.mirror" -> Primitive_mirror(h, c.node, <<c.c1.cx, c.c1.cy>>,
                                                       c.a, copy)

C28_WitnessInPlace ==
    /\ IsPrimitiveTransform(last.op)
    /\ ~last.copy
    /\ pre.items[last.node].kind = "Group"
    /\ Unfolded(items, last.ret) # Unfolded(pre.items, last.node)

\* ------------------------------------------------------------------------
\* C29: for every variant, rotate(angle) and resize(sx, sy) called without
\* a pivot leave the value of center() unchanged.
\* ------------------------------------------------------------------------
C29_NoPivotKeepsCenter ==
    (last.op \in {"Primitive.rotate", "Primitive.resize"} /\ last.c1 = Omitted) =>
        Primitive_center(items, last.ret) = Primitive_center(pre.items, last.node)

\* ------------------------------------------------------------------------
\* C30: when Drawing.add raises TypeError, the element list of the drawing
\* is what it was before the call.
\* ------------------------------------------------------------------------
C30_AddIsAtomic ==
    (last.op = "add" /\ last.err = "TypeError") => elements = pre.elements

====
